---- MODULE Spec2Model ----
(***************************************************************************)
(* A model of ad_htc_app.py: the Rankine (steam) and Brayton (gas) cycle   *)
(* solvers, the biomass router and the analysis block that calls them.     *)
(*                                                                         *)
(* Numbers are exact rationals <<n, d>> (d > 0, lowest terms), so that the *)
(* solver arithmetic is the arithmetic of the reals it approximates.  The  *)
(* property backend (CoolProp) is an equation of state given by tables:    *)
(* piecewise linear in enthalpy on every isobar, hence exactly invertible. *)
(***************************************************************************)
EXTENDS Integers, Sequences, FiniteSets, TLC

VARIABLES
    inp,      \* the inbound parameters of the script run (sidebar widgets)
    pc,       \* the statement of the analysis block that runs next
    steam,    \* the frame of calculate_steam_cycle
    gas,      \* the frame of calculate_gas_cycle_THdot
    bio,      \* the value returned by biomass_outputs
    session,  \* st.session_state
    shown,    \* what the dashboard displays (KPI metrics, energy bars)
    tips,     \* the state-point tooltips of the schematic
    err       \* the st.error message of the except handler

vars == <<inp, pc, steam, gas, bio, session, shown, tips, err>>

----------------------------------------------------------------------------
(* Rational arithmetic.                                                    *)

RECURSIVE Gcd(_, _)
\* The greatest common divisor of a and b > 0 (a may be negative).
Gcd(a, b) == IF b = 0 THEN a ELSE Gcd(b, a % b)

Reduce(n, d, g) == <<n \div g, d \div g>>

\* n/d in lowest terms with a positive denominator (d # 0).
Rat(n, d) ==
    IF d < 0 THEN Reduce(-n, -d, Gcd(-n, -d)) ELSE Reduce(n, d, Gcd(n, d))

RI(n) == <<n, 1>>

\* A non-finite float (numpy's nan or inf).
NonFinite == <<0, 0>>

IsFinite(a) == a[2] # 0

RNeg(a) == <<-a[1], a[2]>>

\* a + b over the common denominator a[2] * b[2] / g, g = gcd(a[2], b[2]).
AddOver(a, b, g) ==
    Rat(a[1] * (b[2] \div g) + b[1] * (a[2] \div g), (a[2] \div g) * b[2])

RAdd(a, b) == AddOver(a, b, Gcd(a[2], b[2]))

RSub(a, b) == RAdd(a, RNeg(b))

\* a * b with g1 = gcd(a[1], b[2]) and g2 = gcd(b[1], a[2]) cancelled first.
MulOver(a, b, g1, g2) ==
    Rat((a[1] \div g1) * (b[1] \div g2), (a[2] \div g2) * (b[2] \div g1))

RMul(a, b) == MulOver(a, b, Gcd(a[1], b[2]), Gcd(b[1], a[2]))

\* b # 0
RInv(b) == IF b[1] < 0 THEN <<-b[2], -b[1]>> ELSE <<b[2], b[1]>>

RDiv(a, b) == RMul(a, RInv(b))

LtOver(a, b, g) == a[1] * (b[2] \div g) < b[1] * (a[2] \div g)

RLt(a, b) == LtOver(a, b, Gcd(a[2], b[2]))

RLe(a, b) == a = b \/ RLt(a, b)

RZero == RI(0)

RMax(a, b) == IF RLt(a, b) THEN b ELSE a

\* The integer part of a (towards minus infinity).
RFloor(a) == a[1] \div a[2]

----------------------------------------------------------------------------
(* Floating-point operations that are not exact in the model.              *)

\* Python's float / float: raises ZeroDivisionError on a zero divisor.
PyDivRaises(b) == b = RZero

\* numpy's float64 / float64: 0/0 and x/0 give nan or inf, with a warning only.
NpDiv(a, b) ==
    IF ~IsFinite(a) \/ ~IsFinite(b) \/ b = RZero THEN NonFinite ELSE RDiv(a, b)

\* f * x for a fraction f in [0, 1]: exact when f is 0 or 1, otherwise rounded
\* down to a multiple of 1/f[2] (a float product is rounded too).
FMul(f, x) ==
    IF ~IsFinite(f) \/ ~IsFinite(x) THEN NonFinite
    ELSE IF f[2] = 1 THEN RMul(f, x)
    ELSE LET xi == x[1] \div x[2]
             xr == x[1] % x[2]
         IN  Rat(f[1] * xi + (f[1] * xr) \div x[2], f[2])

FAdd(a, b) == IF ~IsFinite(a) \/ ~IsFinite(b) THEN NonFinite ELSE RAdd(a, b)

FSub(a, b) == IF ~IsFinite(a) \/ ~IsFinite(b) THEN NonFinite ELSE RSub(a, b)

RECURSIVE Pow2Floor(_, _)
\* The largest k with 2^k <= p, and 2^k, as <<k, 2^k>> (p >= 1).
Pow2Floor(p, acc) ==
    IF 2 * acc[2] > p THEN acc ELSE Pow2Floor(p, <<acc[1] + 1, 2 * acc[2]>>)

\* ln(1), ln(5/4), ln(3/2), ln(7/4), ln(2) in hundredths.
LnKnots == <<0, 22, 41, 56, 69>>

\* np.log of a pressure in Pa (p >= 4), in hundredths: linear between the
\* knots m * 2^k, m in {1, 5/4, 3/2, 7/4}; non-decreasing in p.
NpLog(p) ==
    LET n  == RFloor(p)
        kw == Pow2Floor(n, <<0, 1>>)
        q  == kw[2] \div 4
        j  == (n - kw[2]) \div q
        lo == kw[2] + j * q
    IN  Rat(69 * kw[1] + LnKnots[j + 1]
              + ((LnKnots[j + 2] - LnKnots[j + 1]) * (n - lo)) \div q, 100)

\* np.linspace(start, stop, num)[i + 1], 0 <= i < num, for pressures: the
\* first sample is start, the last is stop, the others are rounded down to 1 Pa.
LinspaceP(start, stop, num, i) ==
    IF i = 0 THEN start
    ELSE IF i = num - 1 THEN stop
    ELSE LET d == RFloor(RSub(stop, start))
             q == d \div (num - 1)
             r == d % (num - 1)
         IN  RAdd(start, RI(i * q + (i * r) \div (num - 1)))

\* x rounded down to a multiple of 1/q.
FloorTo(x, q) == Rat((x[1] \div x[2]) * q + ((x[1] % x[2]) * q) \div x[2], q)

\* np.linspace(start, stop, num)[i + 1], 0 <= i < num, for temperatures: the
\* first sample is start, the last is stop, the others are rounded down to
\* 0.01 K.
Linspace(start, stop, num, i) ==
    IF i = 0 THEN start
    ELSE IF i = num - 1 THEN stop
    ELSE FloorTo(RAdd(start, RDiv(RMul(RI(i), RSub(stop, start)), RI(num - 1))), 100)

----------------------------------------------------------------------------
(* The property backend, CoolProp.PropsSI: a pure function of its inputs   *)
(* that returns a value or raises ValueError outside the fluid's region.   *)

Ok(v) == [ok |-> TRUE, v |-> v]

DomainError == [ok |-> FALSE, v |-> NonFinite]

\* Water: saturation rows at the tabulated pressures (SI units: Pa, K, J/kg,
\* J/kg.K, kg/m3).  cl and cpv are the slopes dh/dT of the liquid and of the
\* vapour branch of the isobar, Tl and Tm the slopes dh/ds of those branches;
\* on the two-phase branch dh/ds = (hg - hf)/(sg - sf) = Tsat.  The liquid is
\* incompressible: hf = cl * (Tsat - 272) + (P - 10000)/1000.
WaterSat == <<
    [P |-> 612,      Tsat |-> 274, hf |-> 8000,    hg |-> 2501400, sf |-> 30,
     sg |-> 9130, Df |-> 1000, Dg |-> 1, cl |-> 4000, cpv |-> 2000, Tl |-> 250, Tm |-> 400],
    [P |-> 10000,    Tsat |-> 320, hf |-> 192000,  hg |-> 2592000, sf |-> 650,
     sg |-> 8150, Df |-> 1000, Dg |-> 1, cl |-> 4000, cpv |-> 2000, Tl |-> 320, Tm |-> 400],
    [P |-> 500000,   Tsat |-> 425, hf |-> 612490,  hg |-> 2737490, sf |-> 1700,
     sg |-> 6700, Df |-> 1000, Dg |-> 3, cl |-> 4000, cpv |-> 2000, Tl |-> 400, Tm |-> 500],
    [P |-> 2000000,  Tsat |-> 500, hf |-> 913990,  hg |-> 2798990, sf |-> 2450,
     sg |-> 6220, Df |-> 800,  Dg |-> 10, cl |-> 4000, cpv |-> 2500, Tl |-> 400, Tm |-> 625],
    [P |-> 20000000, Tsat |-> 640, hf |-> 1491990, hg |-> 2403990, sf |-> 3210,
     sg |-> 4635, Df |-> 500,  Dg |-> 160, cl |-> 4000, cpv |-> 5000, Tl |-> 500, Tm |-> 800],
    [P |-> 22064000, Tsat |-> 647, hf |-> 2084000, hg |-> 2084000, sf |-> 4407,
     sg |-> 4407, Df |-> 320,  Dg |-> 320, cl |-> 4000, cpv |-> 5000, Tl |-> 500, Tm |-> 800] >>

\* CP.PropsSI('Pcrit', 'Water')
WaterPcrit == WaterSat[Len(WaterSat)].P

\* The limits of the Water equation of state.
WaterLimits == [Pmin |-> 612, Pmax |-> 1000000000,
                Tmin |-> <<27316, 100>>, Tmax |-> RI(2000)]

\* The row of the largest tabulated pressure that is at most P (P >= Pmin).
WaterRow(P) ==
    LET k == CHOOSE i \in 1..Len(WaterSat) :
                 /\ RLe(RI(WaterSat[i].P), P)
                 /\ (i = Len(WaterSat) \/ RLt(P, RI(WaterSat[i + 1].P)))
    IN  WaterSat[k]

\* h on the isobar of row w as a function of T (T # Tsat) and of s.
WaterHofT(w, T) ==
    IF RLt(T, RI(w.Tsat))
    THEN RSub(RI(w.hf), RMul(RI(w.cl), RSub(RI(w.Tsat), T)))
    ELSE RAdd(RI(w.hg), RMul(RI(w.cpv), RSub(T, RI(w.Tsat))))

WaterHofS(w, s) ==
    IF RLe(s, RI(w.sf))
    THEN RSub(RI(w.hf), RMul(RI(w.Tl), RSub(RI(w.sf), s)))
    ELSE IF RLt(s, RI(w.sg))
    THEN RAdd(RI(w.hf), RMul(RSub(s, RI(w.sf)), Rat(w.hg - w.hf, w.sg - w.sf)))
    ELSE RAdd(RI(w.hg), RMul(RI(w.Tm), RSub(s, RI(w.sg))))

\* T and s on the isobar of row w as functions of h.
WaterTofH(w, h) ==
    IF RLe(h, RI(w.hf))
    THEN RSub(RI(w.Tsat), RDiv(RSub(RI(w.hf), h), RI(w.cl)))
    ELSE IF RLt(h, RI(w.hg)) THEN RI(w.Tsat)
    ELSE RAdd(RI(w.Tsat), RDiv(RSub(h, RI(w.hg)), RI(w.cpv)))

WaterSofH(w, h) ==
    IF RLe(h, RI(w.hf))
    THEN RSub(RI(w.sf), RDiv(RSub(RI(w.hf), h), RI(w.Tl)))
    ELSE IF RLt(h, RI(w.hg))
    THEN RAdd(RI(w.sf), RMul(RSub(h, RI(w.hf)), Rat(w.sg - w.sf, w.hg - w.hf)))
    ELSE RAdd(RI(w.sg), RDiv(RSub(h, RI(w.hg)), RI(w.Tm)))

\* The state of enthalpy h at pressure P, if it lies in the valid region.
WaterAtH(out, P, h) ==
    LET w == WaterRow(P)
        T == WaterTofH(w, h)
    IN  IF RLt(T, WaterLimits.Tmin) \/ RLt(WaterLimits.Tmax, T) THEN DomainError
        ELSE CASE out = "T" -> Ok(T)
               [] out = "S" -> Ok(WaterSofH(w, h))
               [] out = "H" -> Ok(h)
               [] OTHER -> DomainError

WaterProps(out, n1, v1, n2, v2) ==
    IF ~IsFinite(v1) \/ ~IsFinite(v2) \/ n1 # "P" THEN DomainError
    ELSE IF RLt(v1, RI(WaterLimits.Pmin)) \/ RFloor(v1) >= WaterLimits.Pmax
    THEN DomainError
    ELSE LET w == WaterRow(v1)
         IN  CASE n2 = "Q" ->
                    IF RLt(RI(WaterPcrit), v1) \/ v2 \notin {RI(0), RI(1)} THEN DomainError
                    ELSE CASE out = "H" -> Ok(RI(IF v2 = RI(0) THEN w.hf ELSE w.hg))
                           [] out = "S" -> Ok(RI(IF v2 = RI(0) THEN w.sf ELSE w.sg))
                           [] out = "D" -> Ok(RI(IF v2 = RI(0) THEN w.Df ELSE w.Dg))
                           [] out = "T" -> Ok(RI(w.Tsat))
                           [] OTHER -> DomainError
               [] n2 = "T" ->
                    IF \/ RLt(v2, WaterLimits.Tmin) \/ RLt(WaterLimits.Tmax, v2)
                       \/ (v2 = RI(w.Tsat) /\ RLt(v1, RI(WaterPcrit)))
                    THEN DomainError
                    ELSE WaterAtH(out, v1, WaterHofT(w, v2))
               [] n2 = "H" -> WaterAtH(out, v1, v2)
               [] n2 = "S" -> WaterAtH(out, v1, WaterHofS(w, v2))
               [] OTHER -> DomainError

\* Air: an ideal gas of constant cp (J/kg.K) between Tmin and Tmax (K).  The
\* isentropes are T / pi(P) = const; the entropy coordinate is cp * T / pi(P),
\* a strictly increasing function of the entropy.
AirEos == [cp |-> 1000, Tmin |-> RI(60), Tmax |-> RI(2000),
           Pmin |-> 1, Pmax |-> 2000000000]

\* pi(P) = (P / 101325)^(R/cp) at the tabulated pressure ratios 1, 2, 12, 40,
\* linear in P between them and constant beyond the last.
AirPiTable == << <<101325, <<1, 1>> >>, <<202650, <<5, 4>> >>,
                 <<1215900, <<2, 1>> >>, <<4053000, <<3, 1>> >> >>

\* pi(P) between the rows lo and hi of the table, linear in P.
AirPiBetween(P, lo, hi) ==
    RAdd(lo[2], RMul(RSub(hi[2], lo[2]),
                     RDiv(RSub(P, RI(lo[1])), RI(hi[1] - lo[1]))))

AirPiFrom(P, k) ==
    IF k = Len(AirPiTable) THEN AirPiTable[k][2]
    ELSE AirPiBetween(P, AirPiTable[k], AirPiTable[k + 1])

AirPi(P) ==
    IF RLt(P, RI(AirPiTable[1][1])) THEN AirPiTable[1][2]
    ELSE AirPiFrom(P, CHOOSE i \in 1..Len(AirPiTable) :
                      /\ RLe(RI(AirPiTable[i][1]), P)
                      /\ (i = Len(AirPiTable) \/ RLt(P, RI(AirPiTable[i + 1][1]))))

AirAtT(out, P, T) ==
    IF RLt(T, AirEos.Tmin) \/ RLt(AirEos.Tmax, T) THEN DomainError
    ELSE CASE out = "T" -> Ok(T)
           [] out = "H" -> Ok(RMul(RI(AirEos.cp), T))
           [] out = "S" -> Ok(RDiv(RMul(RI(AirEos.cp), T), AirPi(P)))
           [] OTHER -> DomainError

AirProps(out, n1, v1, n2, v2) ==
    IF ~IsFinite(v1) \/ ~IsFinite(v2) \/ n1 # "P" THEN DomainError
    ELSE IF RLt(v1, RI(AirEos.Pmin)) \/ RFloor(v1) >= AirEos.Pmax THEN DomainError
    ELSE CASE n2 = "T" -> AirAtT(out, v1, v2)
           [] n2 = "H" -> AirAtT(out, v1, RDiv(v2, RI(AirEos.cp)))
           [] n2 = "S" -> AirAtT(out, v1, RDiv(RMul(v2, AirPi(v1)), RI(AirEos.cp)))
           [] OTHER -> DomainError

\* CP.PropsSI(out, n1, v1, n2, v2, fluid)
PropsSI(out, n1, v1, n2, v2, fluid) ==
    CASE fluid = "Water" -> WaterProps(out, n1, v1, n2, v2)
      [] fluid = "Air" -> AirProps(out, n1, v1, n2, v2)
      [] OTHER -> DomainError

----------------------------------------------------------------------------
(* calculate_steam_cycle                                                   *)

\* 273.15
Kelvin == <<5463, 20>>

\* A property query: the arguments of one CP.PropsSI call.
Query(out, n1, v1, n2, v2, fluid) ==
    [out |-> out, n1 |-> n1, v1 |-> v1, n2 |-> n2, v2 |-> v2, fluid |-> fluid]

NoQuery == Query("", "", RZero, "", RZero, "")

Ask(q) == PropsSI(q.out, q.n1, q.v1, q.n2, q.v2, q.fluid)

\* The frame of a solver that has not been called.
SteamIdle ==
    [status |-> "idle", line |-> 0, nq |-> 0, lastq |-> NoQuery,
     h1 |-> RZero, s1 |-> RZero, v1 |-> RZero, T1 |-> RZero,
     h2s |-> RZero, h2 |-> RZero, s2 |-> RZero, T2 |-> RZero,
     h3 |-> RZero, s3 |-> RZero,
     h4s |-> RZero, h4 |-> RZero, s4 |-> RZero, T4 |-> RZero,
     P_sat_arr |-> <<>>, hf |-> <<>>, sf |-> <<>>, hg |-> <<>>, sg |-> <<>>,
     error |-> "", ret |-> <<>>]

\* Lines 94-98: the unit conversions of the arguments.
SteamP1(a) == RMul(a.P_cond_kPa, RI(1000))

SteamP2(a) == RMul(a.P_boiler_kPa, RI(1000))

SteamT3(a) == RAdd(a.T_boiler_C, Kelvin)

SteamEtaP(a) == RDiv(a.pump_eff_pct, RI(100))

SteamEtaT(a) == RDiv(a.turb_eff_pct, RI(100))

\* Line 107: h2s = h1 + v1*(P2-P1)
SteamH2s(a, f) == RAdd(f.h1, RMul(f.v1, RSub(SteamP2(a), SteamP1(a))))

\* SteamH2 with the pump's enthalpy rise subtracted.
SteamH2Minus(a, f) == RSub(f.h1, RDiv(RSub(SteamH2s(a, f), f.h1), SteamEtaP(a)))

\* Line 108: h2 = h1 + (h2s-h1)/eta_p
SteamH2(a, f) == RAdd(f.h1, RDiv(RSub(SteamH2s(a, f), f.h1), SteamEtaP(a)))

\* SteamH4 with the ideal drop divided by the turbine efficiency.
SteamH4Divided(a, f) == RSub(f.h3, RDiv(RSub(f.h3, f.h4s), SteamEtaT(a)))

\* Line 118: h4 = h3 - (h3-h4s)*eta_t
SteamH4(a, f) == RSub(f.h3, RMul(RSub(f.h3, f.h4s), SteamEtaT(a)))

\* The lines of the state-point block that query the backend, in order.
SteamLines == <<101, 102, 103, 104, 109, 110, 113, 114, 117, 119, 120>>

\* The query of state-point line k (an index of SteamLines) in frame f.
SteamQuery(a, f, k) ==
    LET P1 == SteamP1(a)
        P2 == SteamP2(a)
    IN  CASE k = 1  -> Query("H", "P", P1, "Q", RI(0), "Water")
          [] k = 2  -> Query("S", "P", P1, "Q", RI(0), "Water")
          [] k = 3  -> Query("D", "P", P1, "Q", RI(0), "Water")
          [] k = 4  -> Query("T", "P", P1, "Q", RI(0), "Water")
          [] k = 5  -> Query("S", "P", P2, "H", SteamH2(a, f), "Water")
          [] k = 6  -> Query("T", "P", P2, "H", f.h2, "Water")
          [] k = 7  -> Query("H", "P", P2, "T", SteamT3(a), "Water")
          [] k = 8  -> Query("S", "P", P2, "T", SteamT3(a), "Water")
          [] k = 9  -> Query("H", "P", P1, "S", f.s3, "Water")
          [] k = 10 -> Query("S", "P", P1, "H", SteamH4(a, f), "Water")
          [] k = 11 -> Query("T", "P", P1, "H", f.h4, "Water")

\* The assignments of state-point line k, given the value v of its query.
SteamAssign(a, f, k, v) ==
    CASE k = 1  -> [f EXCEPT !.h1 = v]
      [] k = 2  -> [f EXCEPT !.s1 = v]
      [] k = 3  -> [f EXCEPT !.v1 = RDiv(RI(1), v)]
      [] k = 4  -> [f EXCEPT !.T1 = RSub(v, Kelvin)]
      [] k = 5  -> [f EXCEPT !.h2s = SteamH2s(a, f), !.h2 = SteamH2(a, f), !.s2 = v]
      [] k = 6  -> [f EXCEPT !.T2 = RSub(v, Kelvin)]
      [] k = 7  -> [f EXCEPT !.h3 = v]
      [] k = 8  -> [f EXCEPT !.s3 = v]
      [] k = 9  -> [f EXCEPT !.h4s = v]
      [] k = 10 -> [f EXCEPT !.h4 = SteamH4(a, f), !.s4 = v]
      [] k = 11 -> [f EXCEPT !.T4 = RSub(v, Kelvin)]

\* One statement of lines 101-120: the query is issued; its value is assigned,
\* or the ValueError it raises leaves the function.
\* SteamAnswer with a failed query replaced by the value 0 and the solve
\* carried on, as an except clause around the query would do.
SteamAnswerDefaulted(a, f, q, r) ==
    [SteamAssign(a, f, f.line, IF r.ok THEN r.v ELSE RZero)
        EXCEPT !.nq = @ + 1, !.lastq = q, !.line = @ + 1]

\* SteamAnswer with a failing query asked again until it returns.
SteamAnswerRetry(a, f, q, r) ==
    IF r.ok
    THEN [SteamAssign(a, f, f.line, r.v)
            EXCEPT !.nq = @ + 1, !.lastq = q, !.line = @ + 1]
    ELSE [f EXCEPT !.nq = @ + 1, !.lastq = q]

SteamAnswer(a, f, q, r) ==
    IF r.ok
    THEN [SteamAssign(a, f, f.line, r.v)
            EXCEPT !.nq = @ + 1, !.lastq = q, !.line = @ + 1]
    ELSE [f EXCEPT !.nq = @ + 1, !.lastq = q,
                   !.status = "raised", !.error = "ValueError"]

SteamIssue(a, f, q) == SteamAnswer(a, f, q, Ask(q))

SteamStep(a, f) == SteamIssue(a, f, SteamQuery(a, f, f.line))

\* A list comprehension [CP.PropsSI(...) for ...] over the queries qs: the
\* queries are issued in order up to the first that raises.  n is the number
\* issued, vals the values of those that returned.
LoopOutcome(qs, rs, bad) ==
    LET stop == IF bad = {} THEN 0 ELSE CHOOSE i \in bad : \A j \in bad : i <= j
        n    == IF stop = 0 THEN Len(qs) ELSE stop
    IN  [ok |-> stop = 0, n |-> n, lastq |-> IF n = 0 THEN NoQuery ELSE qs[n],
         vals |-> [i \in 1..(IF stop = 0 THEN n ELSE n - 1) |-> rs[i].v]]

LoopResults(qs, rs) == LoopOutcome(qs, rs, {i \in DOMAIN qs : ~rs[i].ok})

RunLoop(qs) == LoopResults(qs, [i \in DOMAIN qs |-> Ask(qs[i])])

\* Line 123: the number of dome samples and the pressure floor (Pa).
DomeN == 300

DomeFloor == 700

\* DomePressures sampled up to the critical pressure itself.
DomePressuresToCritical ==
    [i \in 1..DomeN |-> LinspaceP(RI(DomeFloor), RI(WaterPcrit), DomeN, i - 1)]

\* Line 123: P_sat_arr = np.linspace(700, Pcrit*0.9995, 300)
DomePressures ==
    [i \in 1..DomeN |->
        LinspaceP(RI(DomeFloor), RMul(RI(WaterPcrit), <<9995, 10000>>), DomeN, i - 1)]

\* Lines 124-127: the queries of one dome array, for quality x.
DomeQueries(out, x) ==
    [i \in 1..DomeN |-> Query(out, "P", DomePressures[i], "Q", RI(x), "Water")]

DomeKJ(vals) == [i \in DOMAIN vals |-> RDiv(vals[i], RI(1000))]

\* Lines 124-127: the four comprehensions; they do not depend on the arguments.
DomeLoops ==
    [c \in {<<"H", 0>>, <<"S", 0>>, <<"H", 1>>, <<"S", 1>>} |->
        RunLoop(DomeQueries(c[1], c[2]))]

\* Lines 123-127: the critical-pressure query (which cannot raise) and the
\* four comprehensions.
SteamDomeOutcome(f, g, lhf, lsf, lhg, lsg) ==
    LET Raised(h, n, q) ==
            [h EXCEPT !.nq = f.nq + n, !.lastq = q,
                      !.status = "raised", !.error = "ValueError"]
    IN  IF ~lhf.ok THEN Raised(g, 1 + lhf.n, lhf.lastq)
        ELSE IF ~lsf.ok
        THEN Raised([g EXCEPT !.hf = DomeKJ(lhf.vals)], 1 + lhf.n + lsf.n, lsf.lastq)
        ELSE IF ~lhg.ok
        THEN Raised([g EXCEPT !.hf = DomeKJ(lhf.vals), !.sf = DomeKJ(lsf.vals)],
                    1 + lhf.n + lsf.n + lhg.n, lhg.lastq)
        ELSE IF ~lsg.ok
        THEN Raised([g EXCEPT !.hf = DomeKJ(lhf.vals), !.sf = DomeKJ(lsf.vals),
                              !.hg = DomeKJ(lhg.vals)],
                    1 + lhf.n + lsf.n + lhg.n + lsg.n, lsg.lastq)
        ELSE [g EXCEPT !.hf = DomeKJ(lhf.vals), !.sf = DomeKJ(lsf.vals),
                       !.hg = DomeKJ(lhg.vals), !.sg = DomeKJ(lsg.vals),
                       !.nq = f.nq + 1 + lhf.n + lsf.n + lhg.n + lsg.n,
                       !.lastq = lsg.lastq, !.line = 13]

SteamDomeLoops(f, loops) ==
    SteamDomeOutcome(f, [f EXCEPT !.P_sat_arr = DomePressures],
                     loops[<<"H", 0>>], loops[<<"S", 0>>],
                     loops[<<"H", 1>>], loops[<<"S", 1>>])

SteamDome(f) == SteamDomeLoops(f, DomeLoops)

\* Lines 134-139: the derived quantities (kJ/kg, %).
KJ(x) == RDiv(x, RI(1000))

SteamPumpW(f) == KJ(RSub(f.h2, f.h1))

SteamBoilerQ(f) == KJ(RSub(f.h3, f.h2))

SteamTurbW(f) == KJ(RSub(f.h3, f.h4))

\* SteamCondQ down to the pump outlet in the place of the condenser outlet.
SteamCondQToPumpOut(f) == KJ(RSub(f.h4, f.h2))

SteamCondQ(f) == KJ(RSub(f.h4, f.h1))

SteamNetW(f) == RSub(SteamTurbW(f), SteamPumpW(f))

\* SteamEta without the pump work: turbine work over boiler heat.
SteamEtaGross(f) == RMul(RDiv(SteamTurbW(f), SteamBoilerQ(f)), RI(100))

SteamEta(f) == RMul(RDiv(SteamNetW(f), SteamBoilerQ(f)), RI(100))

\* Lines 141-147: the state table.
SteamStates(a, f) ==
    [labels |-> <<"1 (Cond Out)", "2 (Pump Out)", "3 (Turb In)", "4 (Turb Out)">>,
     T_C    |-> <<f.T1, f.T2, a.T_boiler_C, f.T4>>,
     P_kPa  |-> <<a.P_cond_kPa, a.P_boiler_kPa, a.P_boiler_kPa, a.P_cond_kPa>>,
     h_kJ   |-> <<KJ(f.h1), KJ(f.h2), KJ(f.h3), KJ(f.h4)>>,
     s_kJ   |-> <<KJ(f.s1), KJ(f.s2), KJ(f.s3), KJ(f.s4)>>]

\* Lines 129-148: the derived quantities and the returned tuple; line 139
\* raises ZeroDivisionError when the boiler heat is zero.
SteamReturn(a, f) ==
    IF PyDivRaises(SteamBoilerQ(f))
    THEN [f EXCEPT !.status = "raised", !.error = "ZeroDivisionError"]
    ELSE [f EXCEPT !.status = "returned", !.ret = <<
        [h_cycle  |-> <<KJ(f.h1), KJ(f.h2), KJ(f.h3), KJ(f.h4), KJ(f.h1)>>,
         s_cycle  |-> <<KJ(f.s1), KJ(f.s2), KJ(f.s3), KJ(f.s4), KJ(f.s1)>>,
         sf |-> f.sf, hf |-> f.hf, sg |-> f.sg, hg |-> f.hg,
         pump_w   |-> SteamPumpW(f),
         boiler_q |-> SteamBoilerQ(f),
         turb_w   |-> SteamTurbW(f),
         cond_q   |-> SteamCondQ(f),
         net_w    |-> SteamNetW(f),
         eta      |-> SteamEta(f),
         states   |-> SteamStates(a, f)] >>]

----------------------------------------------------------------------------
(* calculate_gas_cycle_THdot                                               *)

GasIdle ==
    [status |-> "idle", line |-> 0, nq |-> 0, lastq |-> NoQuery,
     h1 |-> RZero, s1 |-> RZero,
     h2s |-> RZero, h2 |-> RZero, T2 |-> RZero, s2 |-> RZero,
     h3 |-> RZero, s3 |-> RZero,
     h4s |-> RZero, h4 |-> RZero, T4 |-> RZero, s4 |-> RZero,
     H_12 |-> <<>>, T_12 |-> <<>>, H_23 |-> <<>>, T_23 |-> <<>>,
     H_34 |-> <<>>, T_34 |-> <<>>, H_41 |-> <<>>, T_41 |-> <<>>,
     error |-> "", ret |-> <<>>]

\* Lines 156-161.
GasT1(a) == RAdd(a.T1_C, Kelvin)

GasT3(a) == RAdd(a.T3_C, Kelvin)

\* Line 158: P1 = 101325.0
GasP1 == <<101325, 1>>

\* GasP2 with rp taken as a gauge ratio: P2 = P1*(1 + rp).
GasP2Gauge(a) == RMul(GasP1, RAdd(RI(1), a.pr))

GasP2(a) == RMul(GasP1, a.pr)

GasEc(a) == RDiv(a.eta_c, RI(100))

GasEt(a) == RDiv(a.eta_t, RI(100))

\* GasH2 with the compressor's enthalpy rise subtracted.
GasH2Minus(a, f) == RSub(f.h1, RDiv(RSub(f.h2s, f.h1), GasEc(a)))

\* Line 168: h2 = h1 + (h2s-h1)/ec
GasH2(a, f) == RAdd(f.h1, RDiv(RSub(f.h2s, f.h1), GasEc(a)))

\* GasH4 with the turbine's enthalpy drop added.
GasH4Plus(a, f) == RAdd(f.h3, RMul(RSub(f.h3, f.h4s), GasEt(a)))

\* Line 176: h4 = h3 - (h3-h4s)*et
GasH4(a, f) == RSub(f.h3, RMul(RSub(f.h3, f.h4s), GasEt(a)))

\* The lines of the state-point block that query the backend, in order.
GasLines == <<163, 164, 167, 169, 170, 172, 173, 175, 177, 178>>

GasQuery(a, f, k) ==
    LET P2 == GasP2(a)
    IN  CASE k = 1  -> Query("H", "P", GasP1, "T", GasT1(a), "Air")
          [] k = 2  -> Query("S", "P", GasP1, "T", GasT1(a), "Air")
          [] k = 3  -> Query("H", "P", P2, "S", f.s1, "Air")
          [] k = 4  -> Query("T", "P", P2, "H", GasH2(a, f), "Air")
          [] k = 5  -> Query("S", "P", P2, "H", f.h2, "Air")
          [] k = 6  -> Query("H", "P", P2, "T", GasT3(a), "Air")
          [] k = 7  -> Query("S", "P", P2, "T", GasT3(a), "Air")
          [] k = 8  -> Query("H", "P", GasP1, "S", f.s3, "Air")
          [] k = 9  -> Query("T", "P", GasP1, "H", GasH4(a, f), "Air")
          [] k = 10 -> Query("S", "P", GasP1, "H", f.h4, "Air")

GasAssign(a, f, k, v) ==
    CASE k = 1  -> [f EXCEPT !.h1 = v]
      [] k = 2  -> [f EXCEPT !.s1 = v]
      [] k = 3  -> [f EXCEPT !.h2s = v]
      [] k = 4  -> [f EXCEPT !.h2 = GasH2(a, f), !.T2 = v]
      [] k = 5  -> [f EXCEPT !.s2 = v]
      [] k = 6  -> [f EXCEPT !.h3 = v]
      [] k = 7  -> [f EXCEPT !.s3 = v]
      [] k = 8  -> [f EXCEPT !.h4s = v]
      [] k = 9  -> [f EXCEPT !.h4 = GasH4(a, f), !.T4 = v]
      [] k = 10 -> [f EXCEPT !.s4 = v]

\* One statement of lines 163-178.
GasAnswer(a, f, q, r) ==
    IF r.ok
    THEN [GasAssign(a, f, f.line, r.v)
            EXCEPT !.nq = @ + 1, !.lastq = q, !.line = @ + 1]
    ELSE [f EXCEPT !.nq = @ + 1, !.lastq = q,
                   !.status = "raised", !.error = "ValueError"]

GasIssue(a, f, q) == GasAnswer(a, f, q, Ask(q))

GasStep(a, f) == GasIssue(a, f, GasQuery(a, f, f.line))

\* Lines 182 and 195: the sample counts of the process paths.
N == 60

N2 == 80

\* GasHdot per kilogram, without the mass flow.
GasHdotPerKg(a, f, h) == RDiv(RSub(h, f.h1), RI(1000))

\* (h - h1)*m_dot/1000: the cumulative enthalpy rate of enthalpy h.
GasHdot(a, f, h) == RDiv(RMul(RSub(h, f.h1), a.m_dot), RI(1000))

\* Line 183: P_12 = np.linspace(P1, P2, N)
GasP12(a) == [i \in 1..N |-> LinspaceP(GasP1, GasP2(a), N, i - 1)]

\* GasFrac12 measured from P2, as the fraction of line 207 is.
GasFrac12FromP2(a, P_i) ==
    NpDiv(FSub(NpLog(GasP2(a)), NpLog(P_i)), FSub(NpLog(GasP2(a)), NpLog(GasP1)))

\* Line 188: frac = (np.log(P_i)-np.log(P1))/(np.log(P2)-np.log(P1))
GasFrac12(a, P_i) ==
    NpDiv(FSub(NpLog(P_i), NpLog(GasP1)), FSub(NpLog(GasP2(a)), NpLog(GasP1)))

\* GasH12 with the path drawn to the isentropic outlet enthalpy h2s.
GasH12Isentropic(a, f, P_i) ==
    FAdd(f.h1, FMul(GasFrac12(a, P_i), RSub(f.h2s, f.h1)))

\* Line 189: h_i = h1 + frac*(h2-h1)
GasH12(a, f, P_i) == FAdd(f.h1, FMul(GasFrac12(a, P_i), RSub(f.h2, f.h1)))

\* The frame after a path loop: its two lists are appended to while the
\* queries return; the query that raises leaves the function.
GasAfterLoop(f, loop, g) ==
    IF loop.ok THEN [g EXCEPT !.nq = f.nq + loop.n, !.lastq = loop.lastq,
                              !.line = f.line + 1]
    ELSE [f EXCEPT !.nq = f.nq + loop.n, !.lastq = loop.lastq,
                   !.status = "raised", !.error = "ValueError"]

\* Lines 182-192: process 1-2, compression.
GasLoop12(a, f, h, loop) ==
    GasAfterLoop(f, loop,
        [f EXCEPT !.H_12 = [i \in 1..N |-> GasHdot(a, f, h[i])],
                  !.T_12 = [i \in 1..N |-> RSub(loop.vals[i], Kelvin)]])

GasPath12(a, f, P, h) ==
    GasLoop12(a, f, h,
        RunLoop([i \in 1..N |-> Query("T", "P", P[i], "H", h[i], "Air")]))

GasOver12(a, f, P) == GasPath12(a, f, P, [i \in 1..N |-> GasH12(a, f, P[i])])

GasLeg12(a, f) == GasOver12(a, f, GasP12(a))

\* Line 196: T_23_arr = np.linspace(T2, T3, N2)
GasT23(a, f) == [i \in 1..N2 |-> Linspace(f.T2, GasT3(a), N2, i - 1)]

\* Lines 195-201: process 2-3, heat addition at P2.
GasLoop23(a, f, T, loop) ==
    GasAfterLoop(f, loop,
        [f EXCEPT !.H_23 = [i \in 1..N2 |-> GasHdot(a, f, loop.vals[i])],
                  !.T_23 = [i \in 1..N2 |-> RSub(T[i], Kelvin)]])

GasOver23(a, f, P2, T) ==
    GasLoop23(a, f, T,
        RunLoop([i \in 1..N2 |-> Query("H", "P", P2, "T", T[i], "Air")]))

GasLeg23(a, f) == GasOver23(a, f, GasP2(a), GasT23(a, f))

\* GasP34 sampled upwards, from P1 to P2.
GasP34Ascending(a) == [i \in 1..N |-> LinspaceP(GasP1, GasP2(a), N, i - 1)]

\* Line 204: P_34 = np.linspace(P2, P1, N)
GasP34(a) == [i \in 1..N |-> LinspaceP(GasP2(a), GasP1, N, i - 1)]

\* Line 207: frac = (np.log(P2)-np.log(P_i))/(np.log(P2)-np.log(P1))
GasFrac34(a, P_i) ==
    NpDiv(FSub(NpLog(GasP2(a)), NpLog(P_i)), FSub(NpLog(GasP2(a)), NpLog(GasP1)))

\* Line 208: h_i = h3 - frac*(h3-h4)
GasH34(a, f, P_i) == FSub(f.h3, FMul(GasFrac34(a, P_i), RSub(f.h3, f.h4)))

\* Lines 204-211: process 3-4, expansion.
GasLoop34(a, f, h, loop) ==
    GasAfterLoop(f, loop,
        [f EXCEPT !.H_34 = [i \in 1..N |-> GasHdot(a, f, h[i])],
                  !.T_34 = [i \in 1..N |-> RSub(loop.vals[i], Kelvin)]])

GasPath34(a, f, P, h) ==
    GasLoop34(a, f, h,
        RunLoop([i \in 1..N |-> Query("T", "P", P[i], "H", h[i], "Air")]))

GasOver34(a, f, P) == GasPath34(a, f, P, [i \in 1..N |-> GasH34(a, f, P[i])])

GasLeg34(a, f) == GasOver34(a, f, GasP34(a))

\* Line 214: T_41_arr = np.linspace(T4, T1, N)
GasT41(a, f) == [i \in 1..N |-> Linspace(f.T4, GasT1(a), N, i - 1)]

\* Lines 214-219: process 4-1, heat rejection at P1.
GasLoop41(a, f, T, loop) ==
    GasAfterLoop(f, loop,
        [f EXCEPT !.H_41 = [i \in 1..N |-> GasHdot(a, f, loop.vals[i])],
                  !.T_41 = [i \in 1..N |-> RSub(T[i], Kelvin)]])

GasOver41(a, f, T) ==
    GasLoop41(a, f, T,
        RunLoop([i \in 1..N |-> Query("H", "P", GasP1, "T", T[i], "Air")]))

GasLeg41(a, f) == GasOver41(a, f, GasT41(a, f))

\* Lines 221-226: the derived quantities (kW for m_dot in kg/s, %).
GasCompW(a, f) == RDiv(RMul(RSub(f.h2, f.h1), a.m_dot), RI(1000))

GasHeatIn(a, f) == RDiv(RMul(RSub(f.h3, f.h2), a.m_dot), RI(1000))

GasTurbW(a, f) == RDiv(RMul(RSub(f.h3, f.h4), a.m_dot), RI(1000))

\* GasNetW with the operands exchanged.
GasNetWSwapped(a, f) == RSub(GasCompW(a, f), GasTurbW(a, f))

GasNetW(a, f) == RSub(GasTurbW(a, f), GasCompW(a, f))

\* GasBwr over the turbine work of one kilogram.
GasBwrPerKg(a, f) ==
    RMul(RDiv(GasCompW(a, f), KJ(RSub(f.h3, f.h4))), RI(100))

GasBwr(a, f) == RMul(RDiv(GasCompW(a, f), GasTurbW(a, f)), RI(100))

\* GasEta clamped to a minimum of 0 inside the solver.
GasEtaClamped(a, f) ==
    RMax(RZero, RMul(RDiv(GasNetW(a, f), GasHeatIn(a, f)), RI(100)))

GasEta(a, f) == RMul(RDiv(GasNetW(a, f), GasHeatIn(a, f)), RI(100))

\* Lines 228-229.
GasTStates(a, f) == <<a.T1_C, RSub(f.T2, Kelvin), a.T3_C, RSub(f.T4, Kelvin)>>

GasHStates(a, f) ==
    <<RZero, GasHdot(a, f, f.h2), GasHdot(a, f, f.h3), GasHdot(a, f, f.h4)>>

\* GasStates with the pressures left in Pa.
GasStatesInPa(a, f) ==
    [labels |-> <<"1 (Comp In)", "2 (Comp Out)", "3 (Turb In)", "4 (Turb Out)">>,
     T_C    |-> <<a.T1_C, RSub(f.T2, Kelvin), a.T3_C, RSub(f.T4, Kelvin)>>,
     P_kPa  |-> <<GasP1, GasP2(a), GasP2(a), GasP1>>,
     h_kJ   |-> <<KJ(f.h1), KJ(f.h2), KJ(f.h3), KJ(f.h4)>>,
     s_kJ   |-> <<KJ(f.s1), KJ(f.s2), KJ(f.s3), KJ(f.s4)>>]

\* Lines 237-243: the state table.
GasStates(a, f) ==
    [labels |-> <<"1 (Comp In)", "2 (Comp Out)", "3 (Turb In)", "4 (Turb Out)">>,
     T_C    |-> <<a.T1_C, RSub(f.T2, Kelvin), a.T3_C, RSub(f.T4, Kelvin)>>,
     P_kPa  |-> <<KJ(GasP1), KJ(GasP2(a)), KJ(GasP2(a)), KJ(GasP1)>>,
     h_kJ   |-> <<KJ(f.h1), KJ(f.h2), KJ(f.h3), KJ(f.h4)>>,
     s_kJ   |-> <<KJ(f.s1), KJ(f.s2), KJ(f.s3), KJ(f.s4)>>]

\* Lines 221-251: the derived quantities and the returned tuple; lines 225 and
\* 226 raise ZeroDivisionError when the turbine work or the heat input is zero.
GasReturn(a, f) ==
    IF PyDivRaises(GasTurbW(a, f)) \/ PyDivRaises(GasHeatIn(a, f))
    THEN [f EXCEPT !.status = "raised", !.error = "ZeroDivisionError"]
    ELSE [f EXCEPT !.status = "returned", !.ret = <<
        [traces   |-> [l12 |-> <<f.H_12, f.T_12>>, l23 |-> <<f.H_23, f.T_23>>,
                       l34 |-> <<f.H_34, f.T_34>>, l41 |-> <<f.H_41, f.T_41>>],
         h_states |-> GasHStates(a, f),
         T_states |-> GasTStates(a, f),
         comp_w   |-> GasCompW(a, f),
         heat_in  |-> GasHeatIn(a, f),
         turb_w   |-> GasTurbW(a, f),
         net_w    |-> GasNetW(a, f),
         bwr      |-> GasBwr(a, f),
         eta      |-> GasEta(a, f),
         states   |-> GasStates(a, f)] >>]

----------------------------------------------------------------------------
(* biomass_outputs, lines 254-260                                          *)

\* biomass_outputs with the volatiles taken as a share of the total feed.
biomass_outputsOfTotal(m_total, moist_pct, ad_eff_pct, htc_conv_pct) ==
    LET m_rich == RDiv(RMul(m_total, moist_pct), RI(100))
        m_lean == RMul(m_total, RSub(RI(1), RDiv(moist_pct, RI(100))))
        m_bio  == RDiv(RMul(m_total, ad_eff_pct), RI(100))
        m_char == RDiv(RMul(m_lean, htc_conv_pct), RI(100))
        m_vol  == RMul(m_total, RSub(RI(1), RDiv(htc_conv_pct, RI(100))))
    IN  [m_rich |-> m_rich, m_lean |-> m_lean, m_bio |-> m_bio,
         m_char |-> m_char, m_vol |-> m_vol]

biomass_outputs(m_total, moist_pct, ad_eff_pct, htc_conv_pct) ==
    LET m_rich == RDiv(RMul(m_total, moist_pct), RI(100))
        m_lean == RMul(m_total, RSub(RI(1), RDiv(moist_pct, RI(100))))
        m_bio  == RDiv(RMul(m_total, ad_eff_pct), RI(100))
        m_char == RDiv(RMul(m_lean, htc_conv_pct), RI(100))
        m_vol  == RMul(m_lean, RSub(RI(1), RDiv(htc_conv_pct, RI(100))))
    IN  [m_rich |-> m_rich, m_lean |-> m_lean, m_bio |-> m_bio,
         m_char |-> m_char, m_vol |-> m_vol]

----------------------------------------------------------------------------
(* The analysis block, lines 859-1105: one press of "Analyze System".      *)

NoSession == [steam_states |-> <<>>, gas_states |-> <<>>, bio_lbl |-> <<>>]

\* f"{x:.{dec}f}": x rounded to a multiple of 1/q (q = 10^dec), halves to
\* the even neighbour.
RoundHalfEven(y, f) ==
    IF RLt(RSub(y, RI(f)), <<1, 2>>) THEN f
    ELSE IF RLt(<<1, 2>>, RSub(y, RI(f))) THEN f + 1
    ELSE IF f % 2 = 0 THEN f ELSE f + 1

Fmt(x, q) == Rat(RoundHalfEven(RMul(x, RI(q)), RFloor(RMul(x, RI(q)))), q)

\* Lines 362-364 and 369-371: the tooltip of state point i (1..4) of a
\* stored state table.
Tip(d, i) ==
    [text |-> "T={} C | P={} kPa<br>h={} kJ/kg | s={} kJ/kg.K",
     vals |-> <<Fmt(d.T_C[i], 10), Fmt(d.P_kPa[i], 1),
                Fmt(d.h_kJ[i], 10), Fmt(d.s_kJ[i], 10000)>>]

\* Lines 366 and 373.
Placeholder == [text |-> "Run analysis to see state properties", vals |-> <<>>]

\* Lines 361-373: the four tooltips of one cycle, from its stored state
\* table (a tuple, empty when st.session_state has no such key).
CycleTips(stored) ==
    IF stored = <<>> THEN [i \in 1..4 |-> Placeholder]
    ELSE [i \in 1..4 |-> Tip(stored[1], i)]

\* Lines 355-373: the eight tooltips, from st.session_state.
SchematicTips(s) ==
    [s_tip |-> CycleTips(s.steam_states), g_tip |-> CycleTips(s.gas_states)]

NoTips == [s_tip |-> <<>>, g_tip |-> <<>>]

\* Lines 350-853: tab 2 builds the tooltips from st.session_state and hands
\* the schematic to the browser, before the analysis block is reached.
BuildSchematic ==
    /\ pc = "schematic"
    /\ tips' = SchematicTips(session)
    /\ pc' = "button"
    /\ UNCHANGED <<inp, steam, gas, bio, session, shown, err>>

\* Lines 859-863: the button is pressed and the try block calls the steam solver.
Analyze ==
    /\ pc = "button"
    /\ pc' = "steam"
    /\ steam' = [SteamIdle EXCEPT !.status = "running", !.line = 1]
    /\ UNCHANGED <<inp, gas, bio, session, shown, tips, err>>

\* AfterSteam going on to the router when the steam solver has returned.
AfterSteamToRouter(f) == IF f.status = "raised" THEN "except"
                         ELSE IF f.status = "returned" THEN "bio" ELSE "steam"

\* An exception raised in a solver leaves the try block for the handler.
AfterSteam(f) == IF f.status = "raised" THEN "except"
                 ELSE IF f.status = "returned" THEN "gas" ELSE "steam"

AfterGas(f) == IF f.status = "raised" THEN "except"
               ELSE IF f.status = "returned" THEN "bio" ELSE "gas"

RunSteamStatement ==
    /\ pc = "steam" /\ steam.status = "running" /\ steam.line \in 1..11
    /\ steam' = SteamStep(inp.steam, steam)
    /\ pc' = AfterSteam(steam')
    /\ UNCHANGED <<inp, gas, bio, session, shown, tips, err>>

RunSteamDome ==
    /\ pc = "steam" /\ steam.status = "running" /\ steam.line = 12
    /\ steam' = SteamDome(steam)
    /\ pc' = AfterSteam(steam')
    /\ UNCHANGED <<inp, gas, bio, session, shown, tips, err>>

\* Line 863 returns; lines 865-866 call the gas solver.
RunSteamReturn ==
    /\ pc = "steam" /\ steam.status = "running" /\ steam.line = 13
    /\ steam' = SteamReturn(inp.steam, steam)
    /\ pc' = AfterSteam(steam')
    /\ gas' = IF steam'.status = "returned"
              THEN [GasIdle EXCEPT !.status = "running", !.line = 1] ELSE gas
    /\ UNCHANGED <<inp, bio, session, shown, tips, err>>

RunGasStatement ==
    /\ pc = "gas" /\ gas.status = "running" /\ gas.line \in 1..10
    /\ gas' = GasStep(inp.gas, gas)
    /\ pc' = AfterGas(gas')
    /\ UNCHANGED <<inp, steam, bio, session, shown, tips, err>>

RunGasLeg12 ==
    /\ pc = "gas" /\ gas.status = "running" /\ gas.line = 11
    /\ gas' = GasLeg12(inp.gas, gas)
    /\ pc' = AfterGas(gas')
    /\ UNCHANGED <<inp, steam, bio, session, shown, tips, err>>

RunGasLeg23 ==
    /\ pc = "gas" /\ gas.status = "running" /\ gas.line = 12
    /\ gas' = GasLeg23(inp.gas, gas)
    /\ pc' = AfterGas(gas')
    /\ UNCHANGED <<inp, steam, bio, session, shown, tips, err>>

RunGasLeg34 ==
    /\ pc = "gas" /\ gas.status = "running" /\ gas.line = 13
    /\ gas' = GasLeg34(inp.gas, gas)
    /\ pc' = AfterGas(gas')
    /\ UNCHANGED <<inp, steam, bio, session, shown, tips, err>>

RunGasLeg41 ==
    /\ pc = "gas" /\ gas.status = "running" /\ gas.line = 14
    /\ gas' = GasLeg41(inp.gas, gas)
    /\ pc' = AfterGas(gas')
    /\ UNCHANGED <<inp, steam, bio, session, shown, tips, err>>

RunGasReturn ==
    /\ pc = "gas" /\ gas.status = "running" /\ gas.line = 15
    /\ gas' = GasReturn(inp.gas, gas)
    /\ pc' = AfterGas(gas')
    /\ UNCHANGED <<inp, steam, bio, session, shown, tips, err>>

\* Lines 868-869: the biomass router and the biogas power (kW).
RunBiomass ==
    /\ pc = "bio"
    /\ LET b == biomass_outputs(inp.bio.m_biomass, inp.bio.moist_pct,
                                inp.bio.ad_eff, inp.bio.htc_conv)
       IN  bio' = << [b EXCEPT !.m_rich = b.m_rich] @@
                     [bio_power |-> RMul(RMul(b.m_bio, inp.bio.biogas_lhv), RI(1000))] >>
    /\ pc' = "store"
    /\ UNCHANGED <<inp, steam, gas, session, shown, tips, err>>

\* Lines 872-874.
\* StoreSession without the line that stores the gas table.
StoreSessionSteamOnly ==
    /\ pc = "store"
    /\ session' = [session EXCEPT
                      !.steam_states = <<steam.ret[1].states>>,
                      !.bio_lbl = <<[m_rich |-> bio[1].m_rich, m_bio |-> bio[1].m_bio]>>]
    /\ pc' = "render"
    /\ UNCHANGED <<inp, steam, gas, bio, shown, tips, err>>

StoreSession ==
    /\ pc = "store"
    /\ session' = [steam_states |-> <<steam.ret[1].states>>,
                   gas_states   |-> <<gas.ret[1].states>>,
                   bio_lbl      |-> <<[m_rich |-> bio[1].m_rich, m_bio |-> bio[1].m_bio]>>]
    /\ pc' = "render"
    /\ UNCHANGED <<inp, steam, gas, bio, shown, tips, err>>

\* Line 1006: the bars of the steam cycle's energy flows.
vals_s(s) == <<s.boiler_q, s.turb_w, s.pump_w, s.net_w, s.cond_q>>

\* Line 1024: the bars of the gas cycle's energy flows, the last one the
\* heat rejected.
vals_g(g) == <<g.heat_in, g.turb_w, g.comp_w, g.net_w, RSub(g.heat_in, g.net_w)>>

\* Lines 881-884: what the KPI metrics show of the solvers' results.
KpiMetrics(s, g) ==
    [gas_net_w   |-> g.net_w,
     gas_bwr     |-> g.bwr,
     gas_eta     |-> RMax(RZero, g.eta),
     steam_net_w |-> s.net_w,
     steam_eta   |-> RMax(RZero, s.eta)]

\* Lines 877-1101: the dashboard.
Render ==
    /\ pc = "render"
    /\ shown' = <<KpiMetrics(steam.ret[1], gas.ret[1])
                    @@ [vals_s |-> vals_s(steam.ret[1]),
                        vals_g |-> vals_g(gas.ret[1])]>>
    /\ pc' = "done"
    /\ UNCHANGED <<inp, steam, gas, bio, session, tips, err>>

\* Lines 1107-1119: the button was not pressed, the landing text is shown.
Landing ==
    /\ pc = "button"
    /\ pc' = "done"
    /\ UNCHANGED <<inp, steam, gas, bio, session, shown, tips, err>>

\* Except with the stored results of the session dropped.
ExceptClearing ==
    /\ pc = "except"
    /\ err' = IF steam.status = "raised" THEN steam.error ELSE gas.error
    /\ session' = NoSession
    /\ pc' = "done"
    /\ UNCHANGED <<inp, steam, gas, bio, shown, tips>>

\* Lines 1103-1105: the handler reports the exception.
Except ==
    /\ pc = "except"
    /\ err' = IF steam.status = "raised" THEN steam.error ELSE gas.error
    /\ pc' = "done"
    /\ UNCHANGED <<inp, steam, gas, bio, session, shown, tips>>

----------------------------------------------------------------------------
(* The arguments of the runs that are checked.                             *)

\* The defaults of the sidebar widgets, lines 273-322.
SteamDefault == [P_cond_kPa |-> RI(10), P_boiler_kPa |-> RI(2000),
                 T_boiler_C |-> RI(350), pump_eff_pct |-> RI(85),
                 turb_eff_pct |-> RI(85)]

GasDefault == [pr |-> RI(12), T1_C |-> RI(25), T3_C |-> RI(1100),
               eta_c |-> RI(88), eta_t |-> RI(90), m_dot |-> RI(1)]

BioDefault == [m_biomass |-> RI(10), moist_pct |-> RI(50), ad_eff |-> RI(60),
               htc_conv |-> RI(70), biogas_lhv |-> RI(22)]

\* Arguments of calculate_steam_cycle, inside and outside the sidebar's
\* ranges; 226.85 C is the saturation temperature at 2000 kPa.
SteamArgs ==
    [P_cond_kPa   : {RI(10), RI(500), RI(2000)},
     P_boiler_kPa : {RI(10), RI(500), RI(2000), RI(20000)},
     T_boiler_C   : {<<4537, 20>>, RI(540)},
     pump_eff_pct : {<<1, 2>>, RI(50), RI(100)},
     turb_eff_pct : {RI(50), RI(100)}]

\* Arguments of calculate_gas_cycle_THdot, inside and outside the sidebar's
\* ranges.
GasArgs ==
    [pr    : {RI(1), RI(2), RI(12), RI(40)},
     T1_C  : {RI(25), RI(50)},
     T3_C  : {RI(600), RI(1100)},
     eta_c : {RI(25), RI(50), RI(100)},
     eta_t : {RI(50), RI(100)},
     m_dot : {RI(1)}]
    \cup
    [pr    : {RI(12)},
     T1_C  : {RI(25)},
     T3_C  : {RI(1100)},
     eta_c : {RI(50), RI(100)},
     eta_t : {RI(100)},
     m_dot : {<<1, 2>>, RI(2)}]
    \cup
    [pr    : {<<17, 16>>, <<5, 4>>},
     T1_C  : {RI(50)},
     T3_C  : {RI(1100)},
     eta_c : {RI(25), RI(100)},
     eta_t : {RI(50), RI(100)},
     m_dot : {RI(2)}]

\* Arguments of biomass_outputs and the heating value.
BioArgs ==
    [m_biomass  : {RI(-1), RI(0), <<1, 10>>, RI(10), RI(500)},
     moist_pct  : {RI(0), RI(10), RI(50), RI(100), RI(150)},
     ad_eff     : {RI(20), RI(60)},
     htc_conv   : {RI(0), RI(30), RI(70), RI(100)},
     biogas_lhv : {RI(22)}]

\* Lines 293-303: the ranges of the steam widgets (min_value, max_value of
\* each st.number_input); no widget compares two values.
SteamPanelAccepts(a) ==
    /\ RLe(RI(5), a.P_cond_kPa) /\ RLe(a.P_cond_kPa, RI(500))
    /\ RLe(RI(500), a.P_boiler_kPa) /\ RLe(a.P_boiler_kPa, RI(20000))
    /\ RLe(RI(150), a.T_boiler_C) /\ RLe(a.T_boiler_C, RI(700))
    /\ RLe(RI(50), a.pump_eff_pct) /\ RLe(a.pump_eff_pct, RI(99))
    /\ RLe(RI(50), a.turb_eff_pct) /\ RLe(a.turb_eff_pct, RI(99))

\* The settings of the analysis runs: a few of each component's arguments.
SteamFew ==
    {SteamDefault,
     [SteamDefault EXCEPT !.T_boiler_C = <<4537, 20>>],
     [SteamDefault EXCEPT !.P_cond_kPa = RI(500), !.P_boiler_kPa = RI(500)],
     [SteamDefault EXCEPT !.P_boiler_kPa = RI(20000), !.T_boiler_C = RI(540),
                          !.pump_eff_pct = RI(50), !.turb_eff_pct = RI(99)],
     [SteamDefault EXCEPT !.pump_eff_pct = RI(100), !.turb_eff_pct = RI(100)]}

GasFew ==
    {GasDefault,
     [GasDefault EXCEPT !.T1_C = RI(50), !.eta_c = RI(50), !.T3_C = RI(600)],
     [GasDefault EXCEPT !.T1_C = RI(50), !.eta_c = RI(50), !.eta_t = RI(50)],
     [GasDefault EXCEPT !.pr = RI(40), !.eta_c = RI(25)],
     [GasDefault EXCEPT !.pr = RI(1)],
     [GasDefault EXCEPT !.pr = RI(2), !.m_dot = RI(2)],
     [GasDefault EXCEPT !.eta_c = RI(100), !.eta_t = RI(100)]}

BioFew ==
    {BioDefault,
     [BioDefault EXCEPT !.moist_pct = RI(90), !.m_biomass = <<1, 10>>]}

Inputs == [steam : SteamFew, gas : GasFew, bio : BioFew]

Init ==
    /\ inp \in Inputs
    /\ pc = "button"
    /\ steam = SteamIdle
    /\ gas = GasIdle
    /\ bio = <<>>
    /\ session = NoSession
    /\ shown = <<>>
    /\ tips = SchematicTips(NoSession)
    /\ err = ""

Next ==
    \/ Analyze
    \/ RunSteamStatement
    \/ RunSteamDome
    \/ RunSteamReturn
    \/ RunGasStatement
    \/ RunGasLeg12
    \/ RunGasLeg23
    \/ RunGasLeg34
    \/ RunGasLeg41
    \/ RunGasReturn
    \/ RunBiomass
    \/ StoreSession
    \/ Render
    \/ Except

\* One press of the button, from the button to the dashboard or the error.
Spec == Init /\ [][Next]_vars

\* The settings of the script runs of one browser session.
AppInputs ==
    {[steam |-> SteamDefault, gas |-> GasDefault, bio |-> BioDefault],
     [steam |-> [SteamDefault EXCEPT !.P_boiler_kPa = RI(20000), !.T_boiler_C = RI(540)],
      gas |-> [GasDefault EXCEPT !.pr = RI(2), !.m_dot = RI(2)], bio |-> BioDefault],
     [steam |-> [SteamDefault EXCEPT !.T_boiler_C = <<4537, 20>>],
      gas |-> GasDefault, bio |-> BioDefault],
     [steam |-> SteamDefault,
      gas |-> [GasDefault EXCEPT !.pr = RI(40), !.eta_c = RI(25)], bio |-> BioDefault]}

\* Lines 273-325: an interaction with a widget (a changed value or the
\* button) makes Streamlit run the script again from its first line;
\* only st.session_state is kept.
Rerun ==
    /\ pc = "done"
    /\ inp' \in AppInputs
    /\ pc' = "schematic"
    /\ steam' = SteamIdle /\ gas' = GasIdle /\ bio' = <<>>
    /\ shown' = <<>> /\ tips' = NoTips /\ err' = ""
    /\ UNCHANGED session

AppInit ==
    /\ inp \in AppInputs
    /\ pc = "schematic"
    /\ steam = SteamIdle
    /\ gas = GasIdle
    /\ bio = <<>>
    /\ session = NoSession
    /\ shown = <<>>
    /\ tips = NoTips
    /\ err = ""

AppNext == BuildSchematic \/ Next \/ Landing \/ Rerun

\* The script runs of one browser session, one after the other.
AppSpec == AppInit /\ [][AppNext]_vars

\* calculate_steam_cycle called on its own.
SteamInit ==
    /\ inp \in [steam : SteamArgs, gas : {GasDefault}, bio : {BioDefault}]
    /\ pc = "steam"
    /\ steam = [SteamIdle EXCEPT !.status = "running", !.line = 1]
    /\ gas = GasIdle
    /\ bio = <<>>
    /\ session = NoSession
    /\ shown = <<>>
    /\ tips = SchematicTips(NoSession)
    /\ err = ""

SteamNext == RunSteamStatement \/ RunSteamDome \/ RunSteamReturn

SteamSpec == SteamInit /\ [][SteamNext]_vars

\* calculate_gas_cycle_THdot called on its own.
GasInit ==
    /\ inp \in [steam : {SteamDefault}, gas : GasArgs, bio : {BioDefault}]
    /\ pc = "gas"
    /\ steam = SteamIdle
    /\ gas = [GasIdle EXCEPT !.status = "running", !.line = 1]
    /\ bio = <<>>
    /\ session = NoSession
    /\ shown = <<>>
    /\ tips = SchematicTips(NoSession)
    /\ err = ""

GasNext ==
    \/ RunGasStatement
    \/ RunGasLeg12
    \/ RunGasLeg23
    \/ RunGasLeg34
    \/ RunGasLeg41
    \/ RunGasReturn

GasSpec == GasInit /\ [][GasNext]_vars

\* biomass_outputs called on its own.
BioInit ==
    /\ inp \in [steam : {SteamDefault}, gas : {GasDefault}, bio : BioArgs]
    /\ pc = "bio"
    /\ steam = SteamIdle
    /\ gas = GasIdle
    /\ bio = <<>>
    /\ session = NoSession
    /\ shown = <<>>
    /\ tips = SchematicTips(NoSession)
    /\ err = ""

BioNext == RunBiomass

BioSpec == BioInit /\ [][BioNext]_vars

----------------------------------------------------------------------------
(* Properties.                                                             *)

\* C1: a Rankine solve whose condenser pressure is greater than or equal to
\* its boiler pressure issues no property query and returns no result: it
\* fails on the input constraint first.
C1_InvertedPressuresRejected ==
    RLe(inp.steam.P_boiler_kPa, inp.steam.P_cond_kPa) =>
        /\ steam.nq = 0
        /\ steam.status # "returned"
        /\ steam.ret = <<>>

\* The number of queries a solver has issued when it reaches a statement.
SteamIssued(line) == IF line <= 12 THEN line - 1 ELSE 12 + 4 * DomeN

GasIssued(line) ==
    CASE line <= 11 -> line - 1
      [] line = 12  -> 10 + N
      [] line = 13  -> 10 + N + N2
      [] line = 14  -> 10 + 2 * N + N2
      [] OTHER      -> 10 + 3 * N + N2

\* A frame whose queries all returned has issued each of them once; a frame
\* that a domain error left stopped at the query that failed, in the
\* statement it had reached, and holds no result.
AbortsAtFailure(f, issued(_)) ==
    /\ f.status \in {"running", "returned"} =>
          /\ f.nq = issued(f.line)
          /\ f.nq = 0 \/ Ask(f.lastq).ok
    /\ f.status = "raised" /\ f.error = "ValueError" =>
          /\ ~Ask(f.lastq).ok
          /\ issued(f.line) < f.nq /\ f.nq <= issued(f.line + 1)
          /\ f.ret = <<>>
    /\ f.status # "returned" => f.ret = <<>>

\* The failure of a solver reaches the analysis block: nothing after the
\* call runs, and the handler reports the error.
FailureReachesCaller ==
    /\ steam.status = "raised" =>
          /\ pc \in {"except", "done"} /\ gas.status = "idle"
          /\ pc = "done" => err = steam.error
    /\ gas.status = "raised" =>
          /\ pc \in {"except", "done"}
          /\ pc = "done" => err = gas.error
    /\ steam.status = "raised" \/ gas.status = "raised" =>
          bio = <<>> /\ session = NoSession /\ shown = <<>>

\* C2: in either solver a query that fails with a domain error ends the
\* solve: no later query is issued, the query is neither retried nor replaced
\* by a default, no result is returned, and the failure reaches the caller.
C2_AbortAtFirstFailure ==
    /\ [](/\ AbortsAtFailure(steam, SteamIssued)
          /\ AbortsAtFailure(gas, GasIssued)
          /\ FailureReachesCaller)
    /\ [][/\ steam.status = "raised" => steam' = steam
          /\ gas.status = "raised" => gas' = gas]_vars

\* The boiler-outlet query at the saturation temperature fails as the
\* seventh query, and the handler has reported it.
C2_Witness ==
    /\ pc = "done" /\ err = "ValueError"
    /\ steam.status = "raised" /\ steam.line = 7 /\ steam.nq = 7

\* The samples <<H, T>> of a leg start at state from and end at state to of
\* the result r, in both coordinates.
LegJoins(r, leg, from, to) ==
    /\ Len(leg[1]) >= 2 /\ Len(leg[2]) = Len(leg[1])
    /\ leg[1][1] = r.h_states[from]
    /\ leg[2][1] = r.T_states[from]
    /\ leg[1][Len(leg[1])] = r.h_states[to]
    /\ leg[2][Len(leg[2])] = r.T_states[to]

\* C3: the first sample of each Brayton leg is the leg's start state and the
\* last sample its end state, in cumulative enthalpy rate (h_states) and in
\* temperature (T_states).
C3_LegEndpoints ==
    gas.status = "returned" =>
        /\ LegJoins(gas.ret[1], gas.ret[1].traces.l12, 1, 2)
        /\ LegJoins(gas.ret[1], gas.ret[1].traces.l23, 2, 3)
        /\ LegJoins(gas.ret[1], gas.ret[1].traces.l34, 3, 4)
        /\ LegJoins(gas.ret[1], gas.ret[1].traces.l41, 4, 1)

\* A returned Brayton result with irreversible compression and expansion
\* and four distinct states.
C3_Witness ==
    /\ gas.status = "returned"
    /\ inp.gas.pr = RI(12) /\ inp.gas.eta_c = RI(50) /\ inp.gas.eta_t = RI(50)
    /\ Len(gas.ret[1].traces.l12[1]) = N /\ Len(gas.ret[1].traces.l23[1]) = N2
    /\ gas.h2 # gas.h2s /\ gas.h4 # gas.h4s
    /\ Cardinality({gas.ret[1].h_states[i] : i \in 1..4}) = 4

\* The work and heat terms of a returned result r, recomputed from the
\* enthalpies (kJ/kg) of its state table and the mass flow m.
TableTurbW(r, m) == RMul(RSub(r.states.h_kJ[3], r.states.h_kJ[4]), m)

TableFeedW(r, m) == RMul(RSub(r.states.h_kJ[2], r.states.h_kJ[1]), m)

TableHeatIn(r, m) == RMul(RSub(r.states.h_kJ[3], r.states.h_kJ[2]), m)

\* C4: every result of the Rankine and of the Brayton solver has
\* net work = turbine work - pump or compressor work and
\* efficiency = 100 * net work / heat input, with turbine work = h3 - h4,
\* pump or compressor work = h2 - h1 and heat input = h3 - h2 of the returned
\* states (times the mass flow for the gas cycle).
C4_EnergyBalance ==
    /\ steam.status = "returned" =>
          /\ steam.ret[1].turb_w = TableTurbW(steam.ret[1], RI(1))
          /\ steam.ret[1].pump_w = TableFeedW(steam.ret[1], RI(1))
          /\ steam.ret[1].boiler_q = TableHeatIn(steam.ret[1], RI(1))
          /\ steam.ret[1].net_w = RSub(steam.ret[1].turb_w, steam.ret[1].pump_w)
          /\ steam.ret[1].eta =
                RMul(RDiv(steam.ret[1].net_w, steam.ret[1].boiler_q), RI(100))
    /\ gas.status = "returned" =>
          /\ gas.ret[1].turb_w = TableTurbW(gas.ret[1], inp.gas.m_dot)
          /\ gas.ret[1].comp_w = TableFeedW(gas.ret[1], inp.gas.m_dot)
          /\ gas.ret[1].heat_in = TableHeatIn(gas.ret[1], inp.gas.m_dot)
          /\ gas.ret[1].net_w = RSub(gas.ret[1].turb_w, gas.ret[1].comp_w)
          /\ gas.ret[1].eta =
                RMul(RDiv(gas.ret[1].net_w, gas.ret[1].heat_in), RI(100))

\* Both solvers have returned: the steam cycle with a positive net work, the
\* gas cycle, at a mass flow of 2 kg/s, with a net work that is not zero.
C4_Witness ==
    /\ steam.status = "returned" /\ gas.status = "returned"
    /\ RLt(RZero, steam.ret[1].net_w)
    /\ inp.gas.m_dot = RI(2)
    /\ gas.ret[1].net_w # RZero

\* The saturation temperature (K) of water at pressure P (Pa).
WaterTsat(P) == Ask(Query("T", "P", P, "Q", RI(0), "Water")).v

\* Valid Rankine arguments: Pc < Pb, Tb above the saturation temperature at
\* Pb, and both efficiencies in (0, 100] percent.
SteamValid(a) ==
    /\ RLt(a.P_cond_kPa, a.P_boiler_kPa)
    /\ RLt(WaterTsat(RMul(a.P_boiler_kPa, RI(1000))), RAdd(a.T_boiler_C, Kelvin))
    /\ RLt(RZero, a.pump_eff_pct) /\ RLe(a.pump_eff_pct, RI(100))
    /\ RLt(RZero, a.turb_eff_pct) /\ RLe(a.turb_eff_pct, RI(100))

\* The enthalpies of a returned state table are in the order h1 < h2 < h3
\* and h4 < h3.
Ordered(h) == RLt(h[1], h[2]) /\ RLt(h[2], h[3]) /\ RLt(h[4], h[3])

\* C5 as stated: for all valid Rankine inputs the four returned states
\* satisfy h1 < h2 < h3 and h4 < h3.
C5_AsStated ==
    steam.status = "returned" /\ SteamValid(inp.steam) =>
        Ordered(steam.ret[1].states.h_kJ)

\* C5 as it holds: for all valid Rankine inputs the returned states satisfy
\* h1 < h2 and h4 < h3; h2 < h3 holds exactly when the ideal pump work
\* v1 * (Pb - Pc) is less than the pump efficiency times h3 - h1, which is so
\* for every pump efficiency of at least 50 percent.
C5_StateOrder ==
    steam.status = "returned" /\ SteamValid(inp.steam) =>
        /\ RLt(steam.ret[1].states.h_kJ[1], steam.ret[1].states.h_kJ[2])
        /\ RLt(steam.ret[1].states.h_kJ[4], steam.ret[1].states.h_kJ[3])
        /\ RLt(steam.ret[1].states.h_kJ[2], steam.ret[1].states.h_kJ[3])
              <=> RLt(RMul(steam.v1, RMul(RSub(inp.steam.P_boiler_kPa,
                                               inp.steam.P_cond_kPa), RI(1000))),
                      RMul(RDiv(inp.steam.pump_eff_pct, RI(100)),
                           RSub(steam.h3, steam.h1)))
        /\ RLe(RI(50), inp.steam.pump_eff_pct) =>
              RLt(steam.ret[1].states.h_kJ[2], steam.ret[1].states.h_kJ[3])

\* A valid solve from 10 kPa to 20 MPa and 540 C with a pump efficiency of
\* 0.5 percent has returned, with h2 above h3.
C5_Witness ==
    /\ steam.status = "returned" /\ SteamValid(inp.steam)
    /\ inp.steam.pump_eff_pct = <<1, 2>>
    /\ inp.steam.P_cond_kPa = RI(10) /\ inp.steam.P_boiler_kPa = RI(20000)
    /\ inp.steam.T_boiler_C = RI(540)
    /\ RLt(steam.ret[1].states.h_kJ[3], steam.ret[1].states.h_kJ[2])

\* Valid Brayton arguments: rp > 1 and both efficiencies in (0, 100] percent.
GasValid(a) ==
    /\ RLt(RI(1), a.pr)
    /\ RLt(RZero, a.eta_c) /\ RLe(a.eta_c, RI(100))
    /\ RLt(RZero, a.eta_t) /\ RLe(a.eta_t, RI(100))

\* The ranges of the gas-cycle widgets of the sidebar, lines 309-322.
GasPanelAccepts(a) ==
    /\ RLe(RI(2), a.pr) /\ RLe(a.pr, RI(40))
    /\ RLe(RI(-20), a.T1_C) /\ RLe(a.T1_C, RI(50))
    /\ RLe(RI(600), a.T3_C) /\ RLe(a.T3_C, RI(1600))
    /\ RLe(RI(50), a.eta_c) /\ RLe(a.eta_c, RI(99))
    /\ RLe(RI(50), a.eta_t) /\ RLe(a.eta_t, RI(99))
    /\ RLe(<<1, 10>>, a.m_dot) /\ RLe(a.m_dot, RI(500))

\* C6 as stated: for all valid gas-cycle inputs with rp > 1, and so for
\* every combination the sidebar accepts, the four returned states satisfy
\* h1 < h2 < h3 and h4 < h3.
C6_AsStated ==
    gas.status = "returned" /\ (GasValid(inp.gas) \/ GasPanelAccepts(inp.gas)) =>
        Ordered(gas.ret[1].states.h_kJ)

\* C6 as it holds: for all valid gas-cycle inputs with rp > 1 the returned
\* states satisfy h1 < h2 and h4 < h3; h2 < h3 holds exactly when the
\* returned compressor-outlet temperature is below the turbine-inlet
\* temperature.
C6_StateOrder ==
    gas.status = "returned" /\ GasValid(inp.gas) =>
        /\ RLt(gas.ret[1].states.h_kJ[1], gas.ret[1].states.h_kJ[2])
        /\ RLt(gas.ret[1].states.h_kJ[4], gas.ret[1].states.h_kJ[3])
        /\ RLt(gas.ret[1].states.h_kJ[2], gas.ret[1].states.h_kJ[3])
              <=> RLt(gas.ret[1].T_states[2], gas.ret[1].T_states[3])

\* The sidebar accepts rp = 12, 50 C at the inlet, 600 C at the turbine
\* inlet and a compressor efficiency of 50 percent; the solve has returned
\* with h2 above h3.
C6_Witness ==
    /\ gas.status = "returned"
    /\ GasPanelAccepts(inp.gas) /\ GasValid(inp.gas)
    /\ inp.gas.pr = RI(12) /\ inp.gas.T1_C = RI(50) /\ inp.gas.T3_C = RI(600)
    /\ inp.gas.eta_c = RI(50)
    /\ RLt(gas.ret[1].states.h_kJ[3], gas.ret[1].states.h_kJ[2])

\* m_dot * T * (rp - 1) / 4 (kW): the enthalpy rate of the isentropic
\* temperature change from T (C) over the pressure ratio rp, at most, for
\* the air of AirEos, whose pi(P) rises by at most (rp - 1) / 4.
IsentropicRate(a, T_C) ==
    RDiv(RMul(RMul(a.m_dot, RAdd(T_C, Kelvin)), RSub(a.pr, RI(1))), RI(4))

\* C7: as rp decreases towards 1 the compressor work and the turbine work
\* tend to zero: both are non-negative and at most proportional to rp - 1
\* (the compressor work to 1/eta_c, the turbine work to eta_t, times the
\* isentropic rate), and at rp = 1 the isentropic outlet enthalpies are the
\* inlet enthalpies and both work terms are zero.
C7_WorkVanishes ==
    /\ gas.status = "returned" =>
          /\ RLe(RZero, gas.ret[1].comp_w)
          /\ RLe(RMul(gas.ret[1].comp_w, RDiv(inp.gas.eta_c, RI(100))),
                 IsentropicRate(inp.gas, inp.gas.T1_C))
          /\ RLe(RZero, gas.ret[1].turb_w)
          /\ RLe(gas.ret[1].turb_w,
                 RMul(RDiv(inp.gas.eta_t, RI(100)),
                      IsentropicRate(inp.gas, inp.gas.T3_C)))
    /\ gas.line >= 10 /\ inp.gas.pr = RI(1) =>
          /\ gas.h2s = gas.h1 /\ gas.h4s = gas.h3
          /\ RMul(RSub(gas.h2, gas.h1), inp.gas.m_dot) = RZero
          /\ RMul(RSub(gas.h3, gas.h4), inp.gas.m_dot) = RZero

\* A solve at rp = 17/16 and m_dot = 2 kg/s has returned with positive
\* compressor work below 11 kW and positive turbine work below 43 kW.
C7_Witness ==
    /\ gas.status = "returned"
    /\ inp.gas.pr = <<17, 16>> /\ inp.gas.eta_c = RI(100) /\ inp.gas.eta_t = RI(100)
    /\ RLt(RZero, gas.ret[1].comp_w) /\ RLt(gas.ret[1].comp_w, RI(11))
    /\ RLt(RZero, gas.ret[1].turb_w) /\ RLt(gas.ret[1].turb_w, RI(43))

\* A percentage in [0, 100], that is a fraction in [0, 1].
IsShare(pct) == RLe(RZero, pct) /\ RLe(pct, RI(100))

\* C8: for every total feed >= 0 and every moisture, digestion and
\* conversion share in [0, 100] %, the router's outputs satisfy
\* m_rich + m_lean = m_total and m_char + m_vol = m_lean (in exact
\* arithmetic; the solver's floats add rounding errors of a few ulp).
C8_BiomassConservation ==
    (/\ bio # <<>>
     /\ RLe(RZero, inp.bio.m_biomass)
     /\ IsShare(inp.bio.moist_pct) /\ IsShare(inp.bio.ad_eff)
     /\ IsShare(inp.bio.htc_conv))
    => /\ RAdd(bio[1].m_rich, bio[1].m_lean) = inp.bio.m_biomass
       /\ RAdd(bio[1].m_char, bio[1].m_vol) = bio[1].m_lean

\* The router has split 10 kg/s at 10 % moisture and 30 % conversion into
\* 1 + 9 kg/s and the lean stream into 2.7 + 6.3 kg/s.
C8_Witness ==
    /\ bio # <<>>
    /\ inp.bio.m_biomass = RI(10) /\ inp.bio.moist_pct = RI(10)
    /\ inp.bio.htc_conv = RI(30)
    /\ bio[1].m_rich = RI(1) /\ bio[1].m_lean = RI(9)
    /\ bio[1].m_char = <<27, 10>> /\ bio[1].m_vol = <<63, 10>>

\* The isentropic outlet enthalpies (J/kg) of the ideal Rankine cycle, from
\* the inlet states of frame f: h2s = h1 + v1*(Pb - Pc), h4s = h(Pc, s3).
IdealH2s(a, f) ==
    RAdd(f.h1, RMul(f.v1, RSub(RMul(a.P_boiler_kPa, RI(1000)),
                               RMul(a.P_cond_kPa, RI(1000)))))

IdealH4s(a, f) ==
    PropsSI("H", "P", RMul(a.P_cond_kPa, RI(1000)), "S", f.s3, "Water").v

\* ((h3 - h4s) - (h2s - h1)) / (h3 - h2s), as a percentage.
IdealEta(h1, h2s, h3, h4s) ==
    RMul(RDiv(RSub(RSub(h3, h4s), RSub(h2s, h1)), RSub(h3, h2s)), RI(100))

\* C9: with pump and turbine efficiency both 100 %, the efficiency (%) the
\* Rankine solver returns is the ideal-cycle reference
\* ((h3 - h4s) - (h2s - h1)) / (h3 - h2s), as a percentage, computed from
\* h2s = h1 + v1*(Pb - Pc) and h4s = h(Pc, s3).
C9_IdealReference ==
    (/\ steam.status = "returned"
     /\ inp.steam.pump_eff_pct = RI(100) /\ inp.steam.turb_eff_pct = RI(100))
    => steam.ret[1].eta =
          IdealEta(steam.h1, IdealH2s(inp.steam, steam), steam.h3,
                   IdealH4s(inp.steam, steam))

\* An ideal cycle between 10 kPa and 20 MPa has returned with an efficiency
\* between 0 and 100 % and a pump work that is not zero.
C9_Witness ==
    /\ steam.status = "returned"
    /\ inp.steam.pump_eff_pct = RI(100) /\ inp.steam.turb_eff_pct = RI(100)
    /\ inp.steam.P_cond_kPa = RI(10) /\ inp.steam.P_boiler_kPa = RI(20000)
    /\ RLt(RZero, steam.ret[1].pump_w)
    /\ RLt(RZero, steam.ret[1].eta) /\ RLt(steam.ret[1].eta, RI(100))

\* max(0, x)
Clamped(x) == IF RLt(x, RZero) THEN RZero ELSE x

\* 100 * num / den
Percent(num, den) == RMul(RDiv(num, den), RI(100))

\* C10: the net work, the back-work ratio and the efficiency a solver
\* returns are the values computed from its states, negative or not; the
\* dashboard shows the net work and the back-work ratio as returned and
\* clamps only the efficiencies to a minimum of 0.
C10_ClampOnlyOnDisplay ==
    /\ gas.status = "returned" =>
          /\ gas.ret[1].net_w =
                RSub(TableTurbW(gas.ret[1], inp.gas.m_dot),
                     TableFeedW(gas.ret[1], inp.gas.m_dot))
          /\ gas.ret[1].bwr =
                Percent(TableFeedW(gas.ret[1], inp.gas.m_dot),
                        TableTurbW(gas.ret[1], inp.gas.m_dot))
          /\ gas.ret[1].eta =
                Percent(RSub(TableTurbW(gas.ret[1], inp.gas.m_dot),
                             TableFeedW(gas.ret[1], inp.gas.m_dot)),
                        TableHeatIn(gas.ret[1], inp.gas.m_dot))
    /\ steam.status = "returned" =>
          /\ steam.ret[1].net_w =
                RSub(TableTurbW(steam.ret[1], RI(1)),
                     TableFeedW(steam.ret[1], RI(1)))
          /\ steam.ret[1].eta =
                Percent(RSub(TableTurbW(steam.ret[1], RI(1)),
                             TableFeedW(steam.ret[1], RI(1))),
                        TableHeatIn(steam.ret[1], RI(1)))
    /\ shown # <<>> =>
          /\ shown[1].gas_net_w = gas.ret[1].net_w
          /\ shown[1].gas_bwr = gas.ret[1].bwr
          /\ shown[1].steam_net_w = steam.ret[1].net_w
          /\ shown[1].gas_eta = Clamped(gas.ret[1].eta)
          /\ shown[1].steam_eta = Clamped(steam.ret[1].eta)

\* The dashboard shows a gas cycle whose returned net work and efficiency
\* are negative: the net work as returned, the efficiency as 0.
C10_Witness ==
    /\ shown # <<>>
    /\ RLt(gas.ret[1].net_w, RZero) /\ RLt(gas.ret[1].eta, RZero)
    /\ RLt(shown[1].gas_net_w, RZero)
    /\ shown[1].gas_eta = RZero

\* The order of the calls as the claim states it: once a solver has been
\* called, the router has been called already.
C11_AsStated ==
    (steam.status # "idle" \/ gas.status # "idle") => bio # <<>>

\* C11: in every analysis run the Rankine solver is called first, the
\* Brayton solver after it has returned, and the biomass router only after
\* both solvers have returned; when a solver raises the router is not called.
C11_RouterAfterSolvers ==
    /\ gas.status # "idle" => steam.status = "returned"
    /\ (pc = "bio" \/ bio # <<>>) =>
          steam.status = "returned" /\ gas.status = "returned"
    /\ (steam.status = "raised" \/ gas.status = "raised") => bio = <<>>

\* The router has just been called, after both solvers returned.
C11_Witness ==
    /\ pc = "store" /\ bio # <<>>
    /\ steam.status = "returned" /\ gas.status = "returned"

\* C12: every Rankine solve the application starts with values the input
\* panel accepts has a boiler pressure strictly greater than the condenser
\* pressure.
C12_PanelKeepsPressuresApart ==
    (steam.status # "idle" /\ SteamPanelAccepts(inp.steam))
    => RLt(inp.steam.P_cond_kPa, inp.steam.P_boiler_kPa)

\* C13: the router rejects a request with a share outside [0, 100] % or a
\* total flow below 0: such a request yields no mass split.
C13_RouterValidatesRanges ==
    bio # <<>> =>
        /\ RLe(RZero, inp.bio.m_biomass)
        /\ IsShare(inp.bio.moist_pct) /\ IsShare(inp.bio.ad_eff)
        /\ IsShare(inp.bio.htc_conv)

\* C14: when an analysis run has completed successfully, the eight
\* tooltips of the schematic carry the state properties computed by that
\* run, not the placeholder and not the values of an earlier run.
C14_TooltipsOfThisRun ==
    (pc = "done" /\ shown # <<>>) =>
        tips = [s_tip |-> CycleTips(<<steam.ret[1].states>>),
                g_tip |-> CycleTips(<<gas.ret[1].states>>)]

\* A step of a running solver frame f (f2 after the step) moves to a later
\* statement or ends the solve.
Advances(f, f2) ==
    f.status = "running" =>
        \/ f2.status \in {"returned", "raised"}
        \/ f2.status = "running" /\ f2.line > f.line

\* C15: every solve is a finite computation over a bounded number of
\* queries: the Rankine solver has 13 statements and issues at most
\* 11 + 1 + 4*300 = 1212 queries, the Brayton solver has 15 statements and
\* issues at most 10 + 60 + 80 + 60 + 60 = 270, a completed solve has issued
\* exactly that many, and every step of a solver moves to a later statement
\* or ends the solve.
C15_BoundedQueries ==
    /\ [](/\ steam.nq <= 11 + 1 + 4 * DomeN
          /\ steam.line <= 13
          /\ steam.status = "returned" => steam.nq = 11 + 1 + 4 * DomeN
          /\ gas.nq <= 10 + N + N2 + N + N
          /\ gas.line <= 15
          /\ gas.status = "returned" => gas.nq = 10 + N + N2 + N + N)
    /\ [][Advances(steam, steam') /\ Advances(gas, gas')]_vars

\* Both solvers have returned, after 1212 and 270 queries.
C15_Witness ==
    /\ steam.status = "returned" /\ steam.nq = 1212
    /\ gas.status = "returned" /\ gas.nq = 270

\* C16: the saturation curve of a Rankine result is four sequences (hf,
\* sf, hg, sg) of the same length, one entry per sampled pressure; the
\* sampled pressures are strictly increasing from 700 Pa to 99.95 % of the
\* critical pressure, so each is strictly below the critical pressure.
C16_SaturationCurve ==
    /\ steam.P_sat_arr # <<>> =>
          /\ Len(steam.P_sat_arr) = DomeN
          /\ steam.P_sat_arr[1] = RI(700)
          /\ steam.P_sat_arr[DomeN] = RMul(RI(WaterPcrit), <<1999, 2000>>)
          /\ \A i \in 1..(DomeN - 1) :
                RLt(steam.P_sat_arr[i], steam.P_sat_arr[i + 1])
          /\ \A i \in 1..DomeN : RLt(steam.P_sat_arr[i], RI(WaterPcrit))
    /\ steam.status = "returned" =>
          /\ steam.P_sat_arr # <<>>
          /\ Len(steam.ret[1].hf) = Len(steam.P_sat_arr)
          /\ Len(steam.ret[1].sf) = Len(steam.P_sat_arr)
          /\ Len(steam.ret[1].hg) = Len(steam.P_sat_arr)
          /\ Len(steam.ret[1].sg) = Len(steam.P_sat_arr)

\* A Rankine result whose curve has 300 points on each branch, with the
\* liquid and vapour enthalpies apart at the floor and close at the top.
C16_Witness ==
    /\ steam.status = "returned"
    /\ Len(steam.ret[1].hf) = 300 /\ Len(steam.ret[1].sg) = 300
    /\ RLt(steam.ret[1].hf[1], steam.ret[1].hf[300])
    /\ RLt(RI(2000), RSub(steam.ret[1].hg[1], steam.ret[1].hf[1]))
    /\ RLt(RSub(steam.ret[1].hg[300], steam.ret[1].hf[300]), RI(1000))

\* |x - y| <= tol
Near(x, y, tol) == RLe(RSub(x, y), tol) /\ RLe(RSub(y, x), tol)

\* The position of pressure P between Pa and Pb on a logarithmic scale.
LogPosition(P, Pa, Pb) ==
    RDiv(RSub(NpLog(P), NpLog(Pa)), RSub(NpLog(Pb), NpLog(Pa)))

\* The i-th of N pressures equally spaced from Pa to Pb.
EvenlySpaced(Pa, Pb, i) ==
    RAdd(Pa, RDiv(RMul(RI(i - 1), RSub(Pb, Pa)), RI(N - 1)))

\* ln of the i-th of N pressures equally spaced in ln P from Pa to Pb.
LogOfLogSpaced(Pa, Pb, i) ==
    RAdd(NpLog(Pa), RDiv(RMul(RI(i - 1), RSub(NpLog(Pb), NpLog(Pa))), RI(N - 1)))

\* The specific enthalpy above h1 (J/kg) of a cumulative enthalpy rate H (kW).
SpecificOf(H, m_dot) == RDiv(RMul(H, RI(1000)), m_dot)

\* The pressures P are N values equally spaced in ln P from Pa to Pb (to
\* within 0.05, the resolution of the logarithm here being 0.03).
LogSpaced(P, Pa, Pb) ==
    \A i \in 1..N : Near(NpLog(P[i]), LogOfLogSpaced(Pa, Pb, i), <<5, 100>>)

\* The sampling as the claim states it: the pressures of the compression
\* leg and of the expansion leg are equally spaced in ln P.
C17_AsStated ==
    gas.H_12 # <<>> =>
        /\ LogSpaced(GasP12(inp.gas), GasP1, GasP2(inp.gas))
        /\ LogSpaced(GasP34(inp.gas), GasP2(inp.gas), GasP1)

\* The pressures P are N values equally spaced in P from Pa to Pb (to within
\* 2 Pa).
LinearlySpaced(P, Pa, Pb) ==
    /\ Len(P) = N /\ P[1] = Pa /\ P[N] = Pb
    /\ \A i \in 1..N : Near(P[i], EvenlySpaced(Pa, Pb, i), RI(2))

\* The cumulative enthalpy rates H are, sample by sample, those of the
\* enthalpy ha + (hb - ha) * (position of P[i] between Pa and Pb in ln P),
\* to within 1 J/kg.
LogInterpolated(H, P, Pa, Pb, ha, hb, h1, m_dot) ==
    /\ Len(H) = N
    /\ \A i \in 1..N :
          Near(SpecificOf(H[i], m_dot),
               RAdd(RSub(ha, h1), RMul(LogPosition(P[i], Pa, Pb), RSub(hb, ha))),
               RI(1))

\* C17: the compression leg samples N = 60 pressures equally spaced in P
\* (not in ln P) from P1 to P2, and the enthalpy of each sample is h1 plus
\* (h2 - h1) times the sample's position between P1 and P2 on the
\* logarithmic scale; the expansion leg is symmetric, from P2 down to P1
\* and from h3 to h4.
C17_PathSampling ==
    /\ gas.H_12 # <<>> =>
          /\ LinearlySpaced(GasP12(inp.gas), GasP1, GasP2(inp.gas))
          /\ LogInterpolated(gas.H_12, GasP12(inp.gas), GasP1, GasP2(inp.gas),
                             gas.h1, gas.h2, gas.h1, inp.gas.m_dot)
    /\ gas.H_34 # <<>> =>
          /\ LinearlySpaced(GasP34(inp.gas), GasP2(inp.gas), GasP1)
          /\ LogInterpolated(gas.H_34, GasP34(inp.gas), GasP2(inp.gas), GasP1,
                             gas.h3, gas.h4, gas.h1, inp.gas.m_dot)

\* Both legs are sampled at rp = 12: the 30th compression sample, about
\* half way in pressure, has taken more than two thirds of the enthalpy
\* rise.
C17_Witness ==
    /\ gas.H_12 # <<>> /\ gas.H_34 # <<>>
    /\ inp.gas.pr = RI(12)
    /\ RLt(RZero, gas.H_12[N])
    /\ RLt(RMul(<<2, 3>>, gas.H_12[N]), gas.H_12[30])

\* The sequence x never decreases, or never increases.
Rising(x) == \A i \in 1..(Len(x) - 1) : RLe(x[i], x[i + 1])

Falling(x) == \A i \in 1..(Len(x) - 1) : RLe(x[i + 1], x[i])

\* The fractions fr run from 0 at the first sample to 1 at the last, are
\* defined, lie in [0, 1] and never decrease.
FractionsProgress(fr) ==
    /\ fr[1] = RZero /\ fr[Len(fr)] = RI(1)
    /\ \A i \in DOMAIN fr : IsFinite(fr[i]) /\ RLe(RZero, fr[i]) /\ RLe(fr[i], RI(1))
    /\ Rising(fr)

\* The temperatures T run from Ta to Tb without turning back.
TemperaturesProgress(T, Ta, Tb) ==
    /\ T[1] = Ta /\ T[Len(T)] = Tb
    /\ IF RLe(Ta, Tb) THEN Rising(T) ELSE Falling(T)

\* The interpolation fractions of the samples at pressures P.
Fractions12(a, P) == [i \in 1..N |-> GasFrac12(a, P[i])]

Fractions34(a, P) == [i \in 1..N |-> GasFrac34(a, P[i])]

\* C18: within every leg the samples follow the progression from the leg's
\* start state to its end state: for rp > 1 the interpolation fractions of
\* the compression and of the expansion leg are defined, lie in [0, 1] and
\* never decrease, from 0 at the first sample to 1 at the last, and the
\* sample temperatures of the heat-addition and of the heat-rejection leg
\* move monotonically from T2 to T3 and from T4 to T1.  (The fractions are
\* those of the loops about to run, at statements 11 and 13 of the solver.)
C18_LegProgression ==
    /\ (gas.line = 11 /\ RLt(RI(1), inp.gas.pr)) =>
          FractionsProgress(Fractions12(inp.gas, GasP12(inp.gas)))
    /\ (gas.line = 13 /\ RLt(RI(1), inp.gas.pr)) =>
          FractionsProgress(Fractions34(inp.gas, GasP34(inp.gas)))
    /\ gas.T_23 # <<>> =>
          /\ Len(gas.T_23) = N2
          /\ TemperaturesProgress(gas.T_23, RSub(gas.T2, Kelvin), inp.gas.T3_C)
    /\ gas.T_41 # <<>> =>
          /\ Len(gas.T_41) = N
          /\ TemperaturesProgress(gas.T_41, RSub(gas.T4, Kelvin), inp.gas.T1_C)

\* A returned solve whose heat-addition leg cools from T2 to a lower T3 and
\* whose heat-rejection leg cools from T4 to T1, each over distinct samples.
C18_Witness ==
    /\ gas.status = "returned" /\ RLt(RI(1), inp.gas.pr)
    /\ RLt(gas.T_23[N2], gas.T_23[N2 - 1]) /\ RLt(gas.T_23[2], gas.T_23[1])
    /\ RLt(gas.T_41[N], gas.T_41[N - 1]) /\ RLt(gas.T_41[2], gas.T_41[1])

\* The rate (kW) of the specific quantity dh (J/kg) at mass flow m (kg/s).
Rate(dh, m) == RMul(m, RDiv(dh, RI(1000)))

\* The enthalpy (J/kg) of air at pressure P (Pa) and temperature T_C (C).
AirH(P, T_C) == Ask(Query("H", "P", P, "T", RAdd(T_C, Kelvin), "Air")).v

\* The samples H of an isobaric leg at pressure P with temperatures T are
\* the rates of the enthalpies above h1.
IsobarRates(H, T, P, h1, m) ==
    /\ Len(H) = Len(T)
    /\ \A i \in DOMAIN H : H[i] = Rate(RSub(AirH(P, T[i]), h1), m)

\* The samples H of a compression or expansion leg are the rates of the
\* interpolated enthalpies h above h1.
PathRates(H, h, h1, m) ==
    /\ Len(H) = Len(h)
    /\ \A i \in DOMAIN H : H[i] = Rate(RSub(h[i], h1), m)

\* C19: the compressor work, heat input, turbine work and net work of a
\* Brayton result and every cumulative-enthalpy sample of its four paths
\* are the specific quantities (per kg, independent of the mass flow) times
\* the mass flow, and the path enthalpies are measured from state 1, which
\* is at 0.
C19_ScaledByMassFlow ==
    gas.status = "returned" =>
        /\ gas.ret[1].comp_w = Rate(RSub(gas.h2, gas.h1), inp.gas.m_dot)
        /\ gas.ret[1].heat_in = Rate(RSub(gas.h3, gas.h2), inp.gas.m_dot)
        /\ gas.ret[1].turb_w = Rate(RSub(gas.h3, gas.h4), inp.gas.m_dot)
        /\ gas.ret[1].net_w =
              Rate(RSub(RSub(gas.h3, gas.h4), RSub(gas.h2, gas.h1)), inp.gas.m_dot)
        /\ gas.ret[1].h_states =
              <<RZero, Rate(RSub(gas.h2, gas.h1), inp.gas.m_dot),
                Rate(RSub(gas.h3, gas.h1), inp.gas.m_dot),
                Rate(RSub(gas.h4, gas.h1), inp.gas.m_dot)>>
        /\ PathRates(gas.ret[1].traces.l12[1],
                     [i \in 1..N |-> GasH12(inp.gas, gas, GasP12(inp.gas)[i])],
                     gas.h1, inp.gas.m_dot)
        /\ IsobarRates(gas.ret[1].traces.l23[1], gas.ret[1].traces.l23[2],
                       GasP2(inp.gas), gas.h1, inp.gas.m_dot)
        /\ PathRates(gas.ret[1].traces.l34[1],
                     [i \in 1..N |-> GasH34(inp.gas, gas, GasP34(inp.gas)[i])],
                     gas.h1, inp.gas.m_dot)
        /\ IsobarRates(gas.ret[1].traces.l41[1], gas.ret[1].traces.l41[2],
                       GasP1, gas.h1, inp.gas.m_dot)
        /\ gas.ret[1].traces.l12[1][1] = RZero
        /\ gas.ret[1].traces.l41[1][N] = RZero

\* A result at a mass flow of 2 kg/s: its compressor work is twice the
\* specific work and the last heat-addition sample is twice h3 - h1.
C19_Witness ==
    /\ gas.status = "returned" /\ inp.gas.m_dot = RI(2)
    /\ RLt(RZero, gas.ret[1].comp_w)
    /\ gas.ret[1].comp_w = RMul(RI(2), RDiv(RSub(gas.h2, gas.h1), RI(1000)))
    /\ gas.ret[1].traces.l23[1][N2] = RMul(RI(2), RDiv(RSub(gas.h3, gas.h1), RI(1000)))

\* The temperature (C) the backend gives for the fluid at pressure P (Pa)
\* and the second input n2 = v2.
CelsiusAt(P, n2, v2, fluid) ==
    RSub(Ask(Query("T", "P", P, n2, v2, fluid)).v, <<27315, 100>>)

\* x / 1000, sequence by sequence.
Thousandths(x) == [i \in DOMAIN x |-> RDiv(x[i], RI(1000))]

\* A state table t has four entries in each column, the labels lab, the
\* pressures (low, high, high, low) in kPa and the enthalpies h and
\* entropies s (SI) divided by 1000.
FourStates(t, lab, low, high, h, s) ==
    /\ DOMAIN t = {"labels", "T_C", "P_kPa", "h_kJ", "s_kJ"}
    /\ t.labels = lab /\ Len(t.T_C) = 4
    /\ t.P_kPa = <<low, high, high, low>>
    /\ t.h_kJ = Thousandths(h)
    /\ t.s_kJ = Thousandths(s)

\* C20: each solver returns a state table of exactly 4 entries, states 1 to
\* 4 in order, each with a label, the temperature in C (K - 273.15), the
\* pressure in kPa, the enthalpy in kJ/kg and the entropy in kJ/kg.K (SI
\* value / 1000); the pressures are (Pc, Pb, Pb, Pc) for steam and
\* (P1, P1*rp, P1*rp, P1) with P1 = 101.325 kPa for gas.
C20_StateTables ==
    /\ steam.status = "returned" =>
          /\ FourStates(steam.ret[1].states,
                 <<"1 (Cond Out)", "2 (Pump Out)", "3 (Turb In)", "4 (Turb Out)">>,
                 inp.steam.P_cond_kPa, inp.steam.P_boiler_kPa,
                 <<steam.h1, steam.h2, steam.h3, steam.h4>>,
                 <<steam.s1, steam.s2, steam.s3, steam.s4>>)
          /\ steam.ret[1].states.T_C =
                <<CelsiusAt(RMul(inp.steam.P_cond_kPa, RI(1000)), "Q", RZero, "Water"),
                  CelsiusAt(RMul(inp.steam.P_boiler_kPa, RI(1000)), "H", steam.h2, "Water"),
                  inp.steam.T_boiler_C,
                  CelsiusAt(RMul(inp.steam.P_cond_kPa, RI(1000)), "H", steam.h4, "Water")>>
    /\ gas.status = "returned" =>
          /\ FourStates(gas.ret[1].states,
                 <<"1 (Comp In)", "2 (Comp Out)", "3 (Turb In)", "4 (Turb Out)">>,
                 Rat(101325, 1000), RMul(Rat(101325, 1000), inp.gas.pr),
                 <<gas.h1, gas.h2, gas.h3, gas.h4>>,
                 <<gas.s1, gas.s2, gas.s3, gas.s4>>)
          /\ gas.ret[1].states.T_C =
                <<inp.gas.T1_C,
                  CelsiusAt(RMul(RI(101325), inp.gas.pr), "H", gas.h2, "Air"),
                  inp.gas.T3_C,
                  CelsiusAt(RI(101325), "H", gas.h4, "Air")>>

\* Both solvers have returned their tables: steam between 10 kPa and 2 MPa,
\* gas between 101.325 kPa and 1215.9 kPa, state 1 of the gas cycle at 25 C.
C20_Witness ==
    /\ steam.status = "returned" /\ gas.status = "returned"
    /\ steam.ret[1].states.P_kPa = <<RI(10), RI(2000), RI(2000), RI(10)>>
    /\ gas.ret[1].states.P_kPa =
          <<<<4053, 40>>, <<12159, 10>>, <<12159, 10>>, <<4053, 40>>>>
    /\ gas.ret[1].states.T_C[1] = RI(25)
    /\ RLt(gas.ret[1].states.T_C[1], gas.ret[1].states.T_C[2])

\* C21: for rp = 12, T1 = 25 C, T3 = 1100 C, compressor efficiency 88 %,
\* turbine efficiency 90 % and 1 kg/s the Brayton solver returns, with
\* T2 > T1, T4 > T1 and a positive net work.
C21_GasScenario ==
    inp.gas = GasDefault =>
        /\ gas.status # "raised"
        /\ gas.line >= 11 =>
              /\ RLt(RAdd(inp.gas.T1_C, Kelvin), gas.T2)
              /\ RLt(RAdd(inp.gas.T1_C, Kelvin), gas.T4)
              /\ RLt(gas.h4, gas.h3)
        /\ gas.status = "returned" =>
              /\ RLt(gas.ret[1].T_states[1], gas.ret[1].T_states[2])
              /\ RLt(gas.ret[1].T_states[1], gas.ret[1].T_states[4])
              /\ RLt(RZero, gas.ret[1].net_w)

\* The scenario has returned: state 1 at 25 C, the turbine outlet above
\* 400 C and a net work between 200 and 400 kW.
C21_Witness ==
    /\ inp.gas = GasDefault /\ gas.status = "returned"
    /\ gas.ret[1].T_states[1] = RI(25)
    /\ RLt(RI(400), gas.ret[1].T_states[4])
    /\ RLt(RI(200), gas.ret[1].net_w) /\ RLt(gas.ret[1].net_w, RI(400))

RECURSIVE SteamRun(_, _)
\* The Rankine solver run to its end from the frame f, statement by
\* statement: the frame that returned or raised.
SteamRun(a, f) ==
    IF f.status # "running" THEN f
    ELSE SteamRun(a, CASE f.line \in 1..11 -> SteamStep(a, f)
                       [] f.line = 12 -> SteamDome(f)
                       [] OTHER -> SteamReturn(a, f))

RECURSIVE GasRun(_, _)
\* The Brayton solver run to its end from the frame f.
GasRun(a, f) ==
    IF f.status # "running" THEN f
    ELSE GasRun(a, CASE f.line \in 1..10 -> GasStep(a, f)
                     [] f.line = 11 -> GasLeg12(a, f)
                     [] f.line = 12 -> GasLeg23(a, f)
                     [] f.line = 13 -> GasLeg34(a, f)
                     [] f.line = 14 -> GasLeg41(a, f)
                     [] OTHER -> GasReturn(a, f))

\* calculate_steam_cycle(a) and calculate_gas_cycle_THdot(a), each called on
\* its own.
SteamAlone(a) == SteamRun(a, [SteamIdle EXCEPT !.status = "running", !.line = 1])

GasAlone(a) == GasRun(a, [GasIdle EXCEPT !.status = "running", !.line = 1])

\* The dashboard presents the results of the Brayton solve g, and of the
\* Rankine solve r, when that solve returns.
PresentsGas(g) ==
    g.status = "returned" =>
        /\ shown # <<>>
        /\ shown[1].gas_net_w = g.ret[1].net_w
        /\ shown[1].gas_bwr = g.ret[1].bwr

PresentsSteam(r) ==
    r.status = "returned" =>
        /\ shown # <<>>
        /\ shown[1].steam_net_w = r.ret[1].net_w

\* C22: the Brayton results an analysis run presents are those of the
\* Brayton solve of its gas inputs alone, whatever its steam and biomass
\* inputs are, and the Rankine results those of the Rankine solve of its
\* steam inputs alone, whatever its gas and biomass inputs are.
C22_SolvesIndependent ==
    pc = "done" =>
        /\ PresentsGas(GasAlone(inp.gas))
        /\ PresentsSteam(SteamAlone(inp.steam))

\* The actual rise from h1 to h2 is the ideal rise to h2s divided by the
\* efficiency eta; for eta in (0, 1] and a positive ideal rise it is at least
\* the ideal rise, and equal to it exactly at eta = 1.
CorrectedRise(h1, h2s, h2, eta) ==
    /\ RSub(h2, h1) = RDiv(RSub(h2s, h1), eta)
    /\ RLt(RZero, eta) /\ RLe(eta, RI(1)) /\ RLt(h1, h2s) =>
          /\ RLe(RSub(h2s, h1), RSub(h2, h1))
          /\ RSub(h2s, h1) = RSub(h2, h1) <=> eta = RI(1)

\* The actual drop from h3 to h4 is the ideal drop to h4s times the
\* efficiency eta; for eta in (0, 1] and a positive ideal drop it is at most
\* the ideal drop, and equal to it exactly at eta = 1.
CorrectedDrop(h3, h4s, h4, eta) ==
    /\ RSub(h3, h4) = RMul(RSub(h3, h4s), eta)
    /\ RLt(RZero, eta) /\ RLe(eta, RI(1)) /\ RLt(h4s, h3) =>
          /\ RLe(RSub(h3, h4), RSub(h3, h4s))
          /\ RSub(h3, h4) = RSub(h3, h4s) <=> eta = RI(1)

\* C23: in both solvers the actual pump or compressor enthalpy rise is the
\* isentropic rise divided by the efficiency and the actual turbine drop is
\* the isentropic drop times the efficiency, so that for efficiencies in
\* (0, 1] with a positive ideal rise and drop the returned pump or compressor
\* work is at least the ideal work and the returned turbine work at most the
\* ideal work, with equality exactly at an efficiency of 1.
C23_EfficiencyCorrections ==
    /\ steam.status = "returned" =>
          /\ CorrectedRise(steam.h1, steam.h2s, steam.h2, SteamEtaP(inp.steam))
          /\ CorrectedDrop(steam.h3, steam.h4s, steam.h4, SteamEtaT(inp.steam))
          /\ steam.ret[1].pump_w = KJ(RDiv(RSub(steam.h2s, steam.h1),
                                           SteamEtaP(inp.steam)))
          /\ steam.ret[1].turb_w = KJ(RMul(RSub(steam.h3, steam.h4s),
                                           SteamEtaT(inp.steam)))
    /\ gas.status = "returned" =>
          /\ CorrectedRise(gas.h1, gas.h2s, gas.h2, GasEc(inp.gas))
          /\ CorrectedDrop(gas.h3, gas.h4s, gas.h4, GasEt(inp.gas))
          /\ gas.ret[1].comp_w =
                KJ(RMul(RDiv(RSub(gas.h2s, gas.h1), GasEc(inp.gas)),
                        inp.gas.m_dot))
          /\ gas.ret[1].turb_w =
                KJ(RMul(RMul(RSub(gas.h3, gas.h4s), GasEt(inp.gas)),
                        inp.gas.m_dot))

\* Both solvers have returned: the Rankine solver at efficiencies of 1, where
\* the actual pump rise and turbine drop are the positive ideal ones, and the
\* Brayton solver at 88 and 90 percent, where the compressor rise is above
\* the ideal rise and the turbine drop below the ideal drop.
C23_Witness ==
    /\ steam.status = "returned" /\ gas.status = "returned"
    /\ SteamEtaP(inp.steam) = RI(1) /\ SteamEtaT(inp.steam) = RI(1)
    /\ RLt(steam.h1, steam.h2s) /\ steam.h2 = steam.h2s
    /\ RLt(steam.h4s, steam.h3) /\ steam.h4 = steam.h4s
    /\ GasEc(inp.gas) = <<22, 25>> /\ GasEt(inp.gas) = <<9, 10>>
    /\ RLt(gas.h1, gas.h2s) /\ RLt(gas.h2s, gas.h2)
    /\ RLt(gas.h4s, gas.h4) /\ RLt(gas.h4, gas.h3)

\* A solve of the analysis run has raised.
RunFailed == steam.status = "raised" \/ gas.status = "raised"

\* A step of a failed run leaves the session state as it is and ends the run
\* with the error message in the place of the results; the session state is
\* written only by the store of a run whose solves both returned.
FailureKeepsSession ==
    /\ RunFailed =>
          /\ session' = session
          /\ pc' \in {"except", "done", "schematic"}
          /\ pc' = "done" => err' # "" /\ shown' = <<>>
    /\ session' # session =>
          /\ pc = "store" /\ ~RunFailed
          /\ steam.status = "returned" /\ gas.status = "returned" /\ bio # <<>>

\* C24: an analysis run that fails in a solve leaves steam_states, gas_states
\* and bio_lbl of the session state exactly as they were before the run
\* (absent if no run succeeded before, else the values of the last run that
\* succeeded) and shows an error message in the place of the results.
C24_FailedRunKeepsSession == [][FailureKeepsSession]_vars

\* A run whose Rankine solve raised has ended with the error message and no
\* results, the session state still holding the tables of an earlier run;
\* the tooltips built from the session state before the run are those of the
\* session state after it.
C24_Witness ==
    /\ pc = "done" /\ steam.status = "raised" /\ err # "" /\ shown = <<>>
    /\ session.steam_states # <<>> /\ session.gas_states # <<>>
    /\ session.bio_lbl # <<>>
    /\ tips = SchematicTips(session)

\* The stored Rankine table st and Brayton table gt carry the pressures and
\* the temperatures that the run with the inputs i writes into its tables.
TablesOfRun(i, st, gt) ==
    /\ st.P_kPa = <<i.steam.P_cond_kPa, i.steam.P_boiler_kPa,
                    i.steam.P_boiler_kPa, i.steam.P_cond_kPa>>
    /\ st.T_C[3] = i.steam.T_boiler_C
    /\ gt.P_kPa[2] = KJ(GasP2(i.gas))
    /\ gt.T_C[1] = i.gas.T1_C /\ gt.T_C[3] = i.gas.T3_C

\* The session state holds both tables or neither, and both are of one run.
StoredPaired ==
    /\ session.steam_states = <<>> <=> session.gas_states = <<>>
    /\ session.steam_states # <<>> =>
          \E i \in AppInputs :
              TablesOfRun(i, session.steam_states[1], session.gas_states[1])

\* A step that writes the session state writes the tables that the two
\* solves of the running analysis returned.
StoredTogether ==
    session' # session =>
        /\ steam.status = "returned" /\ gas.status = "returned"
        /\ session'.steam_states = <<steam.ret[1].states>>
        /\ session'.gas_states = <<gas.ret[1].states>>
        /\ TablesOfRun(inp, session'.steam_states[1], session'.gas_states[1])

\* C25: after any sequence of reruns and analysis runs the session state
\* holds steam_states exactly when it holds gas_states, and when both are
\* there they were produced by the same analysis run.
C25_TablesOfOneRun == [](StoredPaired) /\ [][StoredTogether]_vars

\* After the run at 20 MPa with rp = 2 a later run with other inputs has
\* failed: the session state holds the two tables of the run at 20 MPa.
C25_Witness ==
    /\ pc = "done" /\ err # "" /\ inp.gas.pr # RI(2)
    /\ session.steam_states # <<>> /\ session.gas_states # <<>>
    /\ session.steam_states[1].P_kPa[2] = RI(20000)
    /\ session.gas_states[1].P_kPa[2] = Rat(2 * 101325, 1000)

\* The first law over the Rankine result r of the frame f: the boiler heat
\* less the condenser heat is the net work, (h3 - h2) - (h4 - h1) =
\* (h3 - h4) - (h2 - h1).
SteamBalance(r, f) ==
    /\ r.boiler_q = KJ(RSub(f.h3, f.h2)) /\ r.cond_q = KJ(RSub(f.h4, f.h1))
    /\ r.net_w = RSub(KJ(RSub(f.h3, f.h4)), KJ(RSub(f.h2, f.h1)))
    /\ RSub(r.boiler_q, r.cond_q) = r.net_w

\* The last bar of the gas cycle's energy flows is the heat input less the
\* net work of the Brayton result g, and is (h4 - h1) * m_dot (kW).
GasBalance(bars, g, a, f) ==
    /\ bars[5] = RSub(g.heat_in, g.net_w)
    /\ bars[5] = KJ(RMul(RSub(f.h4, f.h1), a.m_dot))

\* C26: every Rankine result closes the first-law balance, boiler heat less
\* condenser heat equal to the net work, and the heat rejection that the
\* dashboard displays for the gas cycle, heat input less net work, is
\* (h4 - h1) times the mass flow.
C26_EnergyBalance ==
    /\ steam.status = "returned" => SteamBalance(steam.ret[1], steam)
    /\ shown # <<>> =>
          /\ GasBalance(shown[1].vals_g, gas.ret[1], inp.gas, gas)
          /\ RSub(shown[1].vals_s[1], shown[1].vals_s[5]) = shown[1].vals_s[4]

\* The dashboard of a run at 2 kg/s shows a positive rejected heat for the
\* gas cycle, above its net work, and the Rankine result has a positive
\* condenser heat and net work.
C26_Witness ==
    /\ pc = "done" /\ shown # <<>> /\ inp.gas.m_dot = RI(2)
    /\ RLt(shown[1].vals_g[4], shown[1].vals_g[5])
    /\ RLt(RZero, shown[1].vals_g[4])
    /\ RLt(RZero, steam.ret[1].cond_q) /\ RLt(RZero, steam.ret[1].net_w)

\* The Brayton result r at the mass flow m against the result u of the same
\* arguments at 1 kg/s: the efficiency, the back-work ratio, the state table,
\* the state temperatures and the path temperatures are those of u; the work
\* and heat rates and the state enthalpy rates are m times those of u.
SameButForFlow(r, u, m) ==
    /\ r.eta = u.eta /\ r.bwr = u.bwr
    /\ r.states = u.states /\ r.T_states = u.T_states
    /\ r.traces.l12[2] = u.traces.l12[2] /\ r.traces.l23[2] = u.traces.l23[2]
    /\ r.traces.l34[2] = u.traces.l34[2] /\ r.traces.l41[2] = u.traces.l41[2]
    /\ r.comp_w = RMul(m, u.comp_w) /\ r.turb_w = RMul(m, u.turb_w)
    /\ r.heat_in = RMul(m, u.heat_in) /\ r.net_w = RMul(m, u.net_w)
    /\ \A k \in 1..4 : r.h_states[k] = RMul(m, u.h_states[k])

\* The solve f at the mass flow m ends as the solve u of the same arguments
\* at 1 kg/s ends, and returns what u returns but for the mass flow.
FlowIndependent(f, u, m) ==
    /\ f.status = u.status
    /\ f.status = "returned" => SameButForFlow(f.ret[1], u.ret[1], m)

\* C27: the Brayton efficiency, back-work ratio and state table are the same
\* for any two positive mass flows with the other inputs equal (each is that
\* of the solve at 1 kg/s); only the work, heat and path-enthalpy outputs
\* change with the mass flow.
C27_FlowIndependent ==
    gas.status \in {"returned", "raised"} =>
        FlowIndependent(gas, GasAlone([inp.gas EXCEPT !.m_dot = RI(1)]),
                        inp.gas.m_dot)

\* A solve at half a kilogram per second has returned with the back-work
\* ratio and the state table of the solve at 1 kg/s and half its net work.
FlowWitness(r, u) ==
    /\ r.bwr = u.bwr /\ r.eta = u.eta /\ r.states = u.states
    /\ RLt(RZero, r.net_w) /\ RLt(r.net_w, u.net_w)

C27_Witness ==
    /\ gas.status = "returned" /\ inp.gas.m_dot = <<1, 2>>
    /\ FlowWitness(gas.ret[1], GasAlone([inp.gas EXCEPT !.m_dot = RI(1)]).ret[1])

====
